---- MODULE Spec2Model ----
(***************************************************************************)
(* Model of the real-estate document pipeline of team5:                    *)
(*   Home.py                 process_document_enhanced, the batch loop,    *)
(*                           check_data_confidence, upload_to_s3_async     *)
(*   document_processor.py   classify_and_extract, _call_bedrock_agent,    *)
(*                           store_extracted_data                          *)
(*   dynamodb_handler.py     the five store_* methods                      *)
(*                                                                         *)
(* Python strings are sequences of one-character strings, so that strip,   *)
(* lower, substring tests and slices are computed and not assumed.         *)
(* Python values are records [t, v]: t is the type ("str", "num", "list",  *)
(* "json", "none") and v the content.                                      *)
(***************************************************************************)
EXTENDS Integers, Sequences, FiniteSets, TLC

(***************************************************************************)
(* Bounds of the model                                                     *)
(***************************************************************************)
\* documents in one batch (uploaded_files)
MaxDocs == 2
\* number of distinct values random.randint may return in the model
RandSpan == 1

(***************************************************************************)
(* String literals of the program                                          *)
(***************************************************************************)
SettlementDocuments == <<"S","e","t","t","l","e","m","e","n","t"," ","D","o","c","u","m","e","n","t","s">>

IncomeVerifications == <<"I","n","c","o","m","e"," ","V","e","r","i","f","i","c","a","t","i","o","n","s">>

PurchaseAgreements == <<"P","u","r","c","h","a","s","e"," ","A","g","r","e","e","m","e","n","t","s">>

SubIncomeVerification == <<"I","n","c","o","m","e"," ","V","e","r","i","f","i","c","a","t","i","o","n">>

SubSettlement == <<"S","e","t","t","l","e","m","e","n","t">>

SubPurchaseAgreement == <<"P","u","r","c","h","a","s","e"," ","A","g","r","e","e","m","e","n","t">>

UnknownEmployee == <<"U","n","k","n","o","w","n"," ","E","m","p","l","o","y","e","e">>

UnknownOwner == <<"U","n","k","n","o","w","n"," ","O","w","n","e","r">>

UnknownAddress == <<"U","n","k","n","o","w","n"," ","A","d","d","r","e","s","s">>

NoContent == <<"N","o"," ","c","o","n","t","e","n","t">>

ErrUnreadable == <<"U","n","a","b","l","e"," ","t","o"," ","e","x","t","r","a","c","t"," ","r","e","a","d","a","b","l","e"," ","t","e","x","t"," ","f","r","o","m"," ","d","o","c","u","m","e","n","t">>

valid_classifications == <<SettlementDocuments, IncomeVerifications, PurchaseAgreements>>

Categories == {valid_classifications[i] : i \in 1..Len(valid_classifications)}

(***************************************************************************)
(* Inputs of the model: what the environment (uploads, oracle) supplies    *)
(***************************************************************************)
\* a category name the router does not know (used by direct calls only)
InvalidDocument == <<"I","N","V","A","L","I","D","_","D","O","C","U","M","E","N","T">>

\* a name that is none of the three categories but contains "Settlement"
SettlementStatement == <<"S","e","t","t","l","e","m","e","n","t"," ","S","t","a","t","e","m","e","n","t">>

ReplyLowerPurchase == <<"a"," ","p","u","r","c","h","a","s","e"," ","a","g","r","e","e","m","e","n","t","s"," ","f","o","r","m">>

ReplyPaddedIncome == <<" ","I","n","c","o","m","e"," ","V","e","r","i","f","i","c","a","t","i","o","n","s"," ">>

ReplyTwoNames == <<"P","u","r","c","h","a","s","e"," ","A","g","r","e","e","m","e","n","t","s"," ","/"," ","I","n","c","o","m","e"," ","V","e","r","i","f","i","c","a","t","i","o","n","s">>

ReplyUnclear == <<"u","n","c","l","e","a","r">>

TextDeed == <<"d","e","e","d"," ","o","f"," ","s","a","l","e"," ","t","e","x","t">>

TextShort == <<" ","n","o","t","e"," ">>

BucketName == <<"b","k","t">>

ErrTypeError == <<"T","y","p","e","E","r","r","o","r">>

(***************************************************************************)
(* Python strings                                                          *)
(***************************************************************************)
Whitespace == {" ", "\n", "\t"}

Digits == <<"0","1","2","3","4","5","6","7","8","9">>

UpperToLower ==
  [c \in {"A","B","C","D","E","F","G","H","I","J","K","L","M","N","O","P","Q",
          "R","S","T","U","V","W","X","Y","Z"} |->
     CASE c = "A" -> "a" [] c = "B" -> "b" [] c = "C" -> "c" [] c = "D" -> "d"
       [] c = "E" -> "e" [] c = "F" -> "f" [] c = "G" -> "g" [] c = "H" -> "h"
       [] c = "I" -> "i" [] c = "J" -> "j" [] c = "K" -> "k" [] c = "L" -> "l"
       [] c = "M" -> "m" [] c = "N" -> "n" [] c = "O" -> "o" [] c = "P" -> "p"
       [] c = "Q" -> "q" [] c = "R" -> "r" [] c = "S" -> "s" [] c = "T" -> "t"
       [] c = "U" -> "u" [] c = "V" -> "v" [] c = "W" -> "w" [] c = "X" -> "x"
       [] c = "Y" -> "y" [] c = "Z" -> "z"]

\* str.lower()
Lower(s) == [i \in 1..Len(s) |-> IF s[i] \in DOMAIN UpperToLower
                                  THEN UpperToLower[s[i]] ELSE s[i]]

\* str.strip()
RECURSIVE LStrip(_)
LStrip(s) ==
  IF s = <<>> \/ Head(s) \notin Whitespace THEN s ELSE LStrip(Tail(s))

RECURSIVE RStrip(_)
RStrip(s) ==
  IF s = <<>> \/ s[Len(s)] \notin Whitespace THEN s
  ELSE RStrip(SubSeq(s, 1, Len(s) - 1))

Strip(s) == RStrip(LStrip(s))

\* sub in s
Contains(s, sub) ==
  \E i \in 1..(Len(s) - Len(sub) + 1) : SubSeq(s, i, i + Len(sub) - 1) = sub

\* s[:n]
Take(s, n) == SubSeq(s, 1, IF Len(s) < n THEN Len(s) ELSE n)

\* str.replace(a, b) for single characters
ReplaceChar(s, a, b) == [i \in 1..Len(s) |-> IF s[i] = a THEN b ELSE s[i]]

(***************************************************************************)
(* Python values                                                           *)
(***************************************************************************)
S(x) == [t |-> "str", v |-> x]

N(x) == [t |-> "num", v |-> x]

L(x) == [t |-> "list", v |-> x]

None == [t |-> "none", v |-> <<>>]

\* truth value of a Python value: None, "", 0 and [] are falsy
Truthy(x) ==
  CASE x.t = "none" -> FALSE
    [] x.t = "num"  -> x.v # <<"0">>
    [] OTHER        -> x.v # <<>>

\* str(x)
PyStr(x) == IF x.t = "none" THEN <<"N","o","n","e">> ELSE x.v

\* dict.get(k) and dict.get(k, default)
Get(data, k) == IF k \in DOMAIN data THEN data[k] ELSE None

GetOr(data, k, default) == IF k \in DOMAIN data THEN data[k] ELSE default

\* d[k] = x
SetItem(data, k, x) == [f \in DOMAIN data \cup {k} |-> IF f = k THEN x ELSE data[f]]

\* json.dumps(data): the serialized text of a mapping
Dumps(data) == [t |-> "json", v |-> data]

(***************************************************************************)
(* Text extraction: DocumentProcessor.extract_text_from_file               *)
(***************************************************************************)
PdfNotExtracted == <<"[","P","D","F"," ","C","O","N","T","E","N","T"," ","C","O","U","L","D"," ","N","O","T"," ","B","E"," ","E","X","T","R","A","C","T","E","D"," ","-"," ","M","a","y"," ","b","e"," ","i","m","a","g","e","-","b","a","s","e","d"," ","o","r"," ","e","n","c","r","y","p","t","e","d","]">>

ErrReadingPdf == <<"[","E","R","R","O","R"," ","R","E","A","D","I","N","G"," ","P","D","F","]"," ","-"," ">>

ErrReadingDocx == <<"[","E","R","R","O","R"," ","R","E","A","D","I","N","G"," ","D","O","C","X","]"," ","-"," ">>

ImagePrefix == <<"[","I","M","A","G","E"," ","F","I","L","E",":"," ">>

ImageSuffix == <<"]"," ","-"," ","T","h","i","s"," ","i","s"," ","a","n"," ","i","m","a","g","e"," ","f","i","l","e"," ","t","h","a","t"," ","m","a","y"," ","c","o","n","t","a","i","n"," ","t","e","x","t","."," ","P","l","e","a","s","e"," ","p","r","o","c","e","s","s"," ","u","s","i","n","g"," ","O","C","R"," ","i","f"," ","t","e","x","t"," ","e","x","t","r","a","c","t","i","o","n"," ","i","s"," ","n","e","e","d","e","d",".">>

NamePdf == <<"a",".","p","d","f">>

NameTxt == <<"n",".","t","x","t">>

LibError == <<"b","a","d">>

\* filename.lower().split('.')[-1]
RECURSIVE LastSegment(_, _)
LastSegment(s, i) ==
  IF i < 1 THEN s
  ELSE IF s[i] = "." THEN SubSeq(s, i + 1, Len(s))
  ELSE LastSegment(s, i - 1)

FileExtension(filename) == LastSegment(Lower(filename), Len(filename))

\* A document: the file name, the text its bytes carry, and whether the
\* format library (pdfplumber / python-docx) raises on these bytes.
\* _extract_text_from_pdf: text of the pages, a placeholder when empty, a
\* diagnostic when the library raises.
ExtractTextFromPdf(doc) ==
  IF doc.lib = "raise" THEN ErrReadingPdf \o LibError
  ELSE IF Strip(doc.text) # <<>> THEN Strip(doc.text) ELSE PdfNotExtracted

\* _extract_text_from_docx
ExtractTextFromDocx(doc) ==
  IF doc.lib = "raise" THEN ErrReadingDocx \o LibError ELSE Strip(doc.text)

\* variant: image files are decoded like any other file
ExtractTextFromFileNoImages(doc) ==
  LET file_extension == FileExtension(doc.name)
  IN CASE file_extension = <<"p","d","f">>     -> ExtractTextFromPdf(doc)
       [] file_extension = <<"d","o","c","x">> -> ExtractTextFromDocx(doc)
       [] OTHER                                -> doc.text

\* extract_text_from_file: dispatch on the extension.  The sub-extractors
\* catch what the format library raises, and with a str filename and bytes
\* content no other statement of the try block raises, so the handler of
\* lines 39-41 is not reached.
ExtractTextFromFile(doc) ==
  LET file_extension == FileExtension(doc.name)
  IN CASE file_extension = <<"p","d","f">>     -> ExtractTextFromPdf(doc)
       [] file_extension = <<"d","o","c","x">> -> ExtractTextFromDocx(doc)
       [] file_extension = <<"t","x","t">>     -> doc.text
       [] file_extension \in {<<"p","n","g">>, <<"j","p","g">>, <<"j","p","e","g">>}
                                               -> ImagePrefix \o doc.name \o ImageSuffix
       [] OTHER                                -> doc.text

(***************************************************************************)
(* Oracle adapter: DocumentProcessor._call_bedrock_agent                   *)
(***************************************************************************)
\* A reply of the agent runtime: completion text, a response without
\* 'completion', or an exception of the call.
TextReply(x) == [kind |-> "text", text |-> x]

NoCompletion == [kind |-> "nocompletion", text |-> <<>>]

CallRaises == [kind |-> "raise", text |-> <<>>]

\* variant: no event of the completion carries chunk bytes
CallBedrockAgentNoChunks(reply) == <<>>

\* returns the stripped text, and "" without completion or on an exception
CallBedrockAgent(reply) ==
  IF reply.kind = "text" THEN Strip(reply.text) ELSE <<>>

(***************************************************************************)
(* Classification validator of classify_and_extract (lenient variant)      *)
(***************************************************************************)
\* for valid_class in valid_classifications: first name contained, any case
RECURSIVE FirstContainedFrom(_, _)
FirstContainedFrom(result, i) ==
  IF i > Len(valid_classifications) THEN 0
  ELSE IF Contains(Lower(result), Lower(valid_classifications[i])) THEN i
  ELSE FirstContainedFrom(result, i + 1)

\* variant: the name test is case-sensitive
FirstContainedCaseSensitive(result) ==
  LET found == {i \in 1..Len(valid_classifications) :
                  Contains(result, valid_classifications[i])}
  IN IF found = {} THEN 0 ELSE CHOOSE i \in found : \A j \in found : i <= j

FirstContained(result) == FirstContainedFrom(result, 1)

\* variant: an unclear response is kept instead of the default category
ValidateLenientNoDefault(raw) ==
  LET classification == Strip(raw)
  IN IF classification \notin Categories /\ FirstContained(classification) # 0
     THEN valid_classifications[FirstContained(classification)]
     ELSE classification

ValidateLenient(raw) ==
  LET classification == Strip(raw)
  IN IF classification = <<>> \/ classification \notin Categories
     THEN IF FirstContained(classification) # 0
          THEN valid_classifications[FirstContained(classification)]
          ELSE SettlementDocuments
     ELSE classification

(***************************************************************************)
(* The validator variants outside classify_and_extract                     *)
(*                                                                         *)
(* Each takes the answer of the agent runtime (text, no completion, or an  *)
(* exception of the call) and returns a category name or a sentinel.       *)
(***************************************************************************)
\* variant: only an exact category name is accepted
ValidateStrictExactOnly(reply) ==
  IF reply.kind # "text" THEN InvalidDocument
  ELSE IF Strip(reply.text) \in Categories THEN Strip(reply.text)
  ELSE InvalidDocument

\* test_direct.py lines 53-92 and test_bedrock.py lines 67-110: the strict
\* validator
ValidateStrict(reply) ==
  IF reply.kind # "text" THEN InvalidDocument
  ELSE LET result         == Strip(reply.text)
           cleaned_result == Strip(result)
       IN IF cleaned_result \in Categories THEN cleaned_result
          ELSE IF FirstContained(cleaned_result) # 0
          THEN valid_classifications[FirstContained(cleaned_result)]
          ELSE InvalidDocument

\* app.py lines 223, 227, 231: the keyword lists
SettlementKeywords ==
  {<<"s","e","t","t","l","e","m","e","n","t">>,
   <<"c","l","o","s","i","n","g">>,
   <<"h","u","d">>,
   <<"e","s","c","r","o","w">>,
   <<"t","i","t","l","e">>,
   <<"t","r","a","n","s","a","c","t","i","o","n">>,
   <<"p","a","y","m","e","n","t">>,
   <<"m","o","n","e","y">>,
   <<"f","i","n","a","n","c","i","a","l">>,
   <<"c","a","s","h">>,
   <<"f","u","n","d","s">>}

IncomeKeywords ==
  {<<"i","n","c","o","m","e">>,
   <<"s","a","l","a","r","y">>,
   <<"e","m","p","l","o","y","m","e","n","t">>,
   <<"j","o","b">>,
   <<"e","a","r","n","i","n","g","s">>,
   <<"v","e","r","i","f","i","c","a","t","i","o","n">>,
   <<"p","a","y">>,
   <<"t","a","x">>,
   <<"w","-","2">>,
   <<"w","a","g","e">>}

PurchaseKeywords ==
  {<<"p","u","r","c","h","a","s","e">>,
   <<"a","g","r","e","e","m","e","n","t">>,
   <<"c","o","n","t","r","a","c","t">>,
   <<"s","a","l","e">>,
   <<"o","f","f","e","r">>,
   <<"b","u","y","e","r">>,
   <<"s","e","l","l","e","r">>,
   <<"p","r","o","p","e","r","t","y">>,
   <<"h","o","u","s","e">>,
   <<"h","o","m","e">>,
   <<"r","e","a","l"," ","e","s","t","a","t","e">>,
   <<"t","e","r","m","s">>}

\* any(keyword in cleaned_result for keyword in keywords)
AnyKeyword(cleaned_result, keywords) ==
  \E keyword \in keywords : Contains(cleaned_result, keyword)

\* variant: the priority the prompt states (income before settlement)
KeywordStepIncomeFirst(cleaned_result) ==
  IF AnyKeyword(cleaned_result, IncomeKeywords) THEN IncomeVerifications
  ELSE IF AnyKeyword(cleaned_result, SettlementKeywords) THEN SettlementDocuments
  ELSE PurchaseAgreements

\* app.py lines 222-237: keyword matches, then the last resort
KeywordStep(cleaned_result) ==
  IF AnyKeyword(cleaned_result, SettlementKeywords) THEN SettlementDocuments
  ELSE IF AnyKeyword(cleaned_result, IncomeKeywords) THEN IncomeVerifications
  ELSE IF AnyKeyword(cleaned_result, PurchaseKeywords) THEN PurchaseAgreements
  ELSE PurchaseAgreements

\* app.py lines 209-213: the first category whose lower-cased name equals
\* the cleaned result, 0 when there is none
RECURSIVE FirstEqualFrom(_, _)
FirstEqualFrom(cleaned_result, i) ==
  IF i > Len(valid_classifications) THEN 0
  ELSE IF Lower(valid_classifications[i]) = cleaned_result THEN i
  ELSE FirstEqualFrom(cleaned_result, i + 1)

\* variant: without a completion the sentinel is returned
ValidatePermissiveSentinel(reply) ==
  IF reply.kind # "text" THEN InvalidDocument
  ELSE LET cleaned_result == Lower(Strip(Strip(reply.text)))
       IN IF FirstContained(cleaned_result) # 0
          THEN valid_classifications[FirstContained(cleaned_result)]
          ELSE KeywordStep(cleaned_result)

\* app.py lines 165-247: classify_document, the permissive validator
ValidatePermissive(reply) ==
  IF reply.kind # "text" THEN PurchaseAgreements
  ELSE LET result         == Strip(reply.text)
           cleaned_result == Lower(Strip(result))
       IN IF FirstEqualFrom(cleaned_result, 1) # 0
          THEN valid_classifications[FirstEqualFrom(cleaned_result, 1)]
          ELSE IF FirstContained(cleaned_result) # 0
          THEN valid_classifications[FirstContained(cleaned_result)]
          ELSE KeywordStep(cleaned_result)

(***************************************************************************)
(* Oracle extraction text and json.loads                                   *)
(*                                                                         *)
(* The text is a string whose characters are "{", "}", "[", "]", blanks,   *)
(* digits, other characters, and the names of Members: a name stands for   *)
(* the characters of one "key": value member of a JSON object.             *)
(***************************************************************************)
Al == <<"A","l">>

Bo == <<"B","o">>

Elm == <<"1"," ","E","l","m">>

Blank == <<" "," ">>

Members ==
  [m_buyer      |-> [k |-> "buyer_name",       v |-> S(Al)],
   m_buyer_num  |-> [k |-> "buyer_name",       v |-> N(<<"7">>)],
   m_seller     |-> [k |-> "seller_name",      v |-> S(Bo)],
   m_seller_ws  |-> [k |-> "seller_name",      v |-> S(Blank)],
   m_addr       |-> [k |-> "property_address", v |-> S(Elm)],
   m_addr_num   |-> [k |-> "property_address", v |-> N(<<"7">>)],
   m_sale       |-> [k |-> "sale_price",       v |-> N(<<"9">>)],
   m_price      |-> [k |-> "purchase_price",   v |-> N(<<"9">>)],
   m_price_zero |-> [k |-> "purchase_price",   v |-> N(<<"0">>)],
   m_emp        |-> [k |-> "employee_name",    v |-> S(Al)],
   m_emp_num    |-> [k |-> "employee_name",    v |-> N(<<"7">>)],
   m_employer   |-> [k |-> "employer_name",    v |-> S(Bo)],
   m_income     |-> [k |-> "annual_income",    v |-> N(<<"9">>)],
   m_income_0   |-> [k |-> "annual_income",    v |-> N(<<"0">>)],
   m_income_str |-> [k |-> "annual_income",    v |-> S(<<>>)],
   m_file       |-> [k |-> "filename",         v |-> S(<<"z">>)]]

IsMember(c) == c \in DOMAIN Members

\* JSON ignores whitespace between its tokens
NotSpace(c) == c \notin Whitespace

Unspaced(text) == SelectSeq(text, NotSpace)

\* the text is one JSON object: { member* }
IsObjectText(text) ==
  LET t == Unspaced(text)
  IN /\ Len(t) >= 2
     /\ t[1] = "{"
     /\ t[Len(t)] = "}"
     /\ \A i \in 2..(Len(t) - 1) : IsMember(t[i])

\* t (without whitespace) is one JSON value: a number, an object, or a list
\* of values; IsJsonValues: t is a sequence of values
RECURSIVE IsJsonValue(_), IsJsonValues(_)
IsJsonValue(t) ==
  \/ Len(t) = 1 /\ t[1] \in {Digits[i] : i \in 1..Len(Digits)}
  \/ IsObjectText(t)
  \/ /\ Len(t) >= 2
     /\ t[1] = "["
     /\ t[Len(t)] = "]"
     /\ IsJsonValues(SubSeq(t, 2, Len(t) - 1))

IsJsonValues(t) ==
  \/ t = <<>>
  \/ \E k \in 1..Len(t) :
       IsJsonValue(SubSeq(t, 1, k)) /\ IsJsonValues(SubSeq(t, k + 1, Len(t)))

\* the text is valid JSON that is not an object: a number or a list
IsNonObjectJson(text) ==
  IsJsonValue(Unspaced(text)) /\ ~IsObjectText(text)

\* json.loads raises JSONDecodeError
JsonFails(text) == ~IsObjectText(text) /\ ~IsNonObjectJson(text)

\* the dict json.loads builds from an object text (a repeated key keeps the
\* last value)
RECURSIVE ObjectFrom(_, _, _)
ObjectFrom(text, i, obj) ==
  IF i > Len(text) - 1 THEN obj
  ELSE ObjectFrom(text, i + 1, SetItem(obj, Members[text[i]].k, Members[text[i]].v))

ObjectOf(text) == ObjectFrom(Unspaced(text), 2, [x \in {} |-> None])

\* str.find(c) and str.rfind(c): 0-based index, -1 when absent
RECURSIVE FindFrom(_, _, _)
FindFrom(text, c, i) ==
  IF i > Len(text) THEN -1
  ELSE IF text[i] = c THEN i - 1
  ELSE FindFrom(text, c, i + 1)

Find(text, c) == FindFrom(text, c, 1)

RECURSIVE RFindFrom(_, _, _)
RFindFrom(text, c, i) ==
  IF i < 1 THEN -1
  ELSE IF text[i] = c THEN i - 1
  ELSE RFindFrom(text, c, i - 1)

RFind(text, c) == RFindFrom(text, c, Len(text))

\* variant: the slice ends before the closing brace
SliceExclusive(text, start_idx, end_idx) == SubSeq(text, start_idx + 1, end_idx - 1)

\* extracted_data_str[start_idx:end_idx]
Slice(text, start_idx, end_idx) == SubSeq(text, start_idx + 1, end_idx)

(***************************************************************************)
(* DocumentProcessor.classify_and_extract                                  *)
(***************************************************************************)
MinTextLen == 10

RawPreviewLen == 500

TextPreviewLen == 1000

\* lines 100-106: the early return for unreadable text (no 'filename' key)
ShortTextReturn(extracted_text, s3_path) ==
  [classification |-> SettlementDocuments,
   data |-> [error               |-> S(ErrUnreadable),
             document_s3_path    |-> S(s3_path),
             classification      |-> S(SettlementDocuments),
             raw_content_preview |-> S(IF extracted_text # <<>>
                                       THEN Take(extracted_text, RawPreviewLen)
                                       ELSE NoContent)],
   path |-> "short"]

\* lines 171-179: the return of the outer exception handler
ExceptionReturn(message, s3_path, filename) ==
  [classification |-> SettlementDocuments,
   data |-> [error            |-> S(message),
             document_s3_path |-> S(s3_path),
             classification   |-> S(SettlementDocuments),
             filename         |-> S(filename)],
   path |-> "exception"]

\* variant: raw_text is given the document text
FallbackRecordOfDocument(extracted_data_str, s3_path, classification, extracted_text) ==
  [raw_text               |-> S(extracted_text),
   document_s3_path       |-> S(s3_path),
   classification         |-> S(classification),
   extracted_text_preview |-> S(Take(extracted_text, TextPreviewLen))]

\* lines 157-162: the record built when no JSON can be parsed
FallbackRecord(extracted_data_str, s3_path, classification, extracted_text) ==
  [raw_text               |-> S(extracted_data_str),
   document_s3_path       |-> S(s3_path),
   classification         |-> S(classification),
   extracted_text_preview |-> S(Take(extracted_text, TextPreviewLen))]

\* variant: the filename is not injected
AddMetadataNoFilename(structured_data, s3_path, classification, filename) ==
  SetItem(SetItem(structured_data,
      "document_s3_path", S(s3_path)),
      "classification", S(classification))

\* lines 164-167: the three metadata fields
AddMetadata(structured_data, s3_path, classification, filename) ==
  SetItem(SetItem(SetItem(structured_data,
      "document_s3_path", S(s3_path)),
      "classification", S(classification)),
      "filename", S(filename))

\* lines 141-169: parse the extraction text and return, or raise into the
\* outer handler when json.loads gave a value that is not a dict
ParseAndReturn(extracted_data_str, classification, extracted_text, s3_path, filename) ==
  LET start_idx == Find(extracted_data_str, "{")
      end_idx   == RFind(extracted_data_str, "}") + 1
      json_str  == Slice(extracted_data_str, start_idx, end_idx)
  IN IF ~JsonFails(extracted_data_str)
     THEN IF IsObjectText(extracted_data_str)
          THEN [classification |-> classification,
                data |-> AddMetadata(ObjectOf(extracted_data_str), s3_path,
                                     classification, filename),
                path |-> "normal"]
          ELSE ExceptionReturn(ErrTypeError, s3_path, filename)
     ELSE IF start_idx # -1 /\ end_idx > start_idx /\ ~JsonFails(json_str)
          THEN [classification |-> classification,
                data |-> AddMetadata(ObjectOf(json_str), s3_path,
                                     classification, filename),
                path |-> "embedded"]
          ELSE [classification |-> classification,
                data |-> AddMetadata(FallbackRecord(extracted_data_str, s3_path,
                                         classification, extracted_text),
                                     s3_path, classification, filename),
                path |-> "fallback"]

\* line 100: not extracted_text or len(extracted_text.strip()) < 10
TextUnreadable(extracted_text) ==
  extracted_text = <<>> \/ Len(Strip(extracted_text)) < MinTextLen

(***************************************************************************)
(* Confidence gate: check_data_confidence (Home.py)                        *)
(***************************************************************************)
required_fields ==
  [c \in Categories |->
     CASE c = IncomeVerifications -> <<"employee_name", "employer_name", "annual_income">>
       [] c = SettlementDocuments -> <<"buyer_name", "seller_name", "property_address", "sale_price">>
       [] c = PurchaseAgreements  -> <<"buyer_name", "seller_name", "property_address", "purchase_price">>]

\* variant: a whitespace-only value counts as present
FieldMissingFalsyOnly(extracted_data, field) ==
  ~Truthy(Get(extracted_data, field))

\* not extracted_data.get(field) or str(extracted_data.get(field)).strip() == ""
FieldMissing(extracted_data, field) ==
  \/ ~Truthy(Get(extracted_data, field))
  \/ Strip(PyStr(Get(extracted_data, field))) = <<>>

\* the score is kept in tenths: 10 is 1.0, the penalty 2 is 0.2
FullScore == 10

Penalty == 2

RECURSIVE MissingOf(_, _)
MissingOf(extracted_data, fields) ==
  IF fields = <<>> THEN <<>>
  ELSE (IF FieldMissing(extracted_data, Head(fields)) THEN <<Head(fields)>> ELSE <<>>)
       \o MissingOf(extracted_data, Tail(fields))

\* variant: the Settlement Documents entry of required_fields is not found
CheckDataConfidenceNoSettlement(extracted_data, classification) ==
  IF classification \in DOMAIN required_fields \ {SettlementDocuments}
  THEN LET missing_fields == MissingOf(extracted_data, required_fields[classification])
       IN [score   |-> FullScore - Penalty * Len(missing_fields),
           missing |-> missing_fields]
  ELSE [score |-> FullScore, missing |-> <<>>]

CheckDataConfidence(extracted_data, classification) ==
  IF classification \in DOMAIN required_fields
  THEN LET missing_fields == MissingOf(extracted_data, required_fields[classification])
       IN [score   |-> FullScore - Penalty * Len(missing_fields),
           missing |-> missing_fields]
  ELSE [score |-> FullScore, missing |-> <<>>]

\* line 234: confidence_score < 0.6 or missing_fields
Threshold == 6

\* variant: only the score decides
GateFailsScoreOnly(c) == c.score < Threshold

GateFails(c) == c.score < Threshold \/ c.missing # <<>>

(***************************************************************************)
(* Identifiers: uuid.uuid4() and random.randint(100000, 999999)            *)
(***************************************************************************)
\* str(n) for n >= 0
RECURSIVE IntToStr(_)
IntToStr(n) ==
  IF n < 10 THEN <<Digits[n + 1]>>
  ELSE IntToStr(n \div 10) \o <<Digits[(n % 10) + 1]>>

\* str(uuid.uuid4()): the n-th identifier drawn; uuid4 values are taken to
\* be fresh, and they are never all-digit strings
Uuid(n) == <<"u","u","i","d","-">> \o IntToStr(n)

\* random.randint(100000, 999999): the lower end of the range, and the
\* values of it the model draws from
RandMin == 100000

RandInts == RandMin..(RandMin + RandSpan - 1)

(***************************************************************************)
(* DynamoDBHandler: the five tables and the store_* methods                *)
(*                                                                         *)
(* A row is [pk, sk, document_s3_path, raw_extracted_data]: hash key,      *)
(* range key, and the two columns every table has.  put_item replaces the  *)
(* row that has the same hash and range key.                               *)
(***************************************************************************)
TableNames == {"income_verification", "owner_profile", "property",
               "purchase_agreement", "settlement"}

EmptyTables == [n \in TableNames |-> {}]

PutItem(tbls, name, item) ==
  [tbls EXCEPT ![name] =
     {r \in @ : ~(r.pk = item.pk /\ r.sk = item.sk)} \cup {item}]

\* x.strip() raises AttributeError when x is not a string
StripRaises(x) == x.t # "str"

\* Each store_* method is modelled by its outcome [raised, table, item, id]:
\* raised when the method raises before or in put_item (put_ok is the
\* table's answer), else the row it puts and the identifier it returns.
StoreOutcome(raises, table, pk, sk, data, id) ==
  [raised |-> raises,
   table  |-> table,
   item   |-> [pk |-> pk, sk |-> sk,
               document_s3_path   |-> GetOr(data, "document_s3_path", S(<<>>)),
               raw_extracted_data |-> Dumps(data)],
   id     |-> id]

store_income_verification(data, uuid, put_ok) ==
  LET buyer_id == Uuid(uuid)
      name0    == GetOr(data, "employee_name", S(UnknownEmployee))
      raises   == Truthy(name0) /\ StripRaises(name0)
      name     == IF ~Truthy(name0) \/ (~raises /\ Strip(name0.v) = <<>>)
                  THEN S(UnknownEmployee) ELSE name0
  IN StoreOutcome(raises \/ ~put_ok, "income_verification",
                  S(buyer_id), name, data, buyer_id)

store_owner_profile(data, uuid, put_ok) ==
  LET owner_id    == Uuid(uuid)
      owner_name0 == GetOr(data, "full_name",
                           GetOr(data, "buyer_name", S(UnknownOwner)))
      raises      == Truthy(owner_name0) /\ StripRaises(owner_name0)
      owner_name  == IF ~Truthy(owner_name0) \/ (~raises /\ Strip(owner_name0.v) = <<>>)
                     THEN S(UnknownOwner) ELSE owner_name0
  IN StoreOutcome(raises \/ ~put_ok, "owner_profile",
                  S(owner_id), owner_name, data, owner_id)

SingpostLen == 50

\* data.get('property_address', 'Unknown Address')[:50] raises TypeError on
\* a number or None; .strip() raises on anything that is not a string
store_property(data, uuid, put_ok) ==
  LET property_id == Uuid(uuid)
      address     == GetOr(data, "property_address", S(UnknownAddress))
      raises      == address.t # "str"
      singpost0   == IF raises THEN address ELSE S(Take(address.v, SingpostLen))
      singpost    == IF ~Truthy(singpost0) \/ (~raises /\ Strip(singpost0.v) = <<>>)
                     THEN S(UnknownAddress) ELSE singpost0
  IN StoreOutcome(raises \/ ~put_ok, "property",
                  S(property_id), singpost, data, property_id)

store_purchase_agreement(data, agreement_id, property_id, put_ok) ==
  StoreOutcome(~put_ok, "purchase_agreement",
               N(IntToStr(agreement_id)), N(IntToStr(property_id)), data,
               IntToStr(agreement_id))

store_settlement(data, uuid, property_id, put_ok) ==
  LET settlement_id == Uuid(uuid)
  IN StoreOutcome(~put_ok, "settlement",
                  S(settlement_id), N(IntToStr(property_id)), data, settlement_id)

(***************************************************************************)
(* Persistence router: DocumentProcessor.store_extracted_data              *)
(*                                                                         *)
(* The call is given the tables, the next uuid, the two numbers            *)
(* random.randint returns and the put that the table storage rejects       *)
(* (fail: "none", "primary", "property" or "owner").  Its result is the    *)
(* tables after the call, the returned string and the uuids drawn.         *)
(***************************************************************************)
\* variant: the handler deletes the rows the call has put
StoreFailedRollback(tbls, uuids, w) ==
  [tables  |-> [t \in TableNames |->
                  {r \in tbls[t] :
                     \A i \in 1..Len(w) : ~(w[i].table = t /\ w[i].id = r.pk.v)}],
   ret     |-> <<>>,
   uuids   |-> uuids,
   written |-> w]

\* lines 356-358: except Exception: print, return "": what was written
\* before the exception stays written
StoreFailed(tbls, uuids, w) ==
  [tables |-> tbls, ret |-> <<>>, uuids |-> uuids, written |-> w]

StoreDone(tbls, id, uuids, w) ==
  [tables |-> tbls, ret |-> id, uuids |-> uuids, written |-> w]

\* the row a store_* method has put: its table and primary identifier
Row(o) == [table |-> o.table, id |-> o.id]

\* lines 324-334
PropertyData(data) ==
  [property_address |-> GetOr(data, "property_address", S(<<>>)),
   property_type    |-> GetOr(data, "property_type", S(<<>>)),
   square_footage   |-> GetOr(data, "square_footage", N(<<"0">>)),
   bedrooms         |-> GetOr(data, "bedrooms", N(<<"0">>)),
   bathrooms        |-> GetOr(data, "bathrooms", N(<<"0">>)),
   lot_size         |-> GetOr(data, "lot_size", S(<<>>)),
   year_built       |-> GetOr(data, "year_built", N(<<"0">>)),
   property_value   |-> GetOr(data, "purchase_price", N(<<"0">>)),
   document_s3_path |-> GetOr(data, "document_s3_path", S(<<>>))]

\* lines 341-344
OwnerData(data) ==
  [full_name        |-> GetOr(data, "buyer_name", S(<<>>)),
   document_s3_path |-> GetOr(data, "document_s3_path", S(<<>>))]

\* lines 350-353
CatchAllData(data) ==
  [document_s3_path   |-> GetOr(data, "document_s3_path", S(<<>>)),
   raw_extracted_data |-> Dumps(data)]

\* one primary write: the row and the returned id, or the handler's ""
SingleWrite(tbls, o) ==
  IF o.raised THEN StoreFailed(tbls, 1, <<>>)
  ELSE StoreDone(PutItem(tbls, o.table, o.item), o.id, 1, <<Row(o)>>)

\* variant: the owner profile is keyed on full_name of the record
OwnerStepFullName(tbls, data, agreement_id, uuid, used, fail, w) ==
  IF Truthy(Get(data, "full_name"))
  THEN LET o == store_owner_profile(OwnerData(data), uuid + used, fail # "owner")
       IN IF o.raised THEN StoreFailed(tbls, used + 1, w)
          ELSE StoreDone(PutItem(tbls, o.table, o.item), agreement_id,
                         used + 1, Append(w, Row(o)))
  ELSE StoreDone(tbls, agreement_id, used, w)

\* lines 339-347: the owner-profile write of a purchase agreement, then
\* return agreement_id
OwnerStep(tbls, data, agreement_id, uuid, used, fail, w) ==
  IF Truthy(Get(data, "buyer_name"))
  THEN LET o == store_owner_profile(OwnerData(data), uuid + used, fail # "owner")
       IN IF o.raised THEN StoreFailed(tbls, used + 1, w)
          ELSE StoreDone(PutItem(tbls, o.table, o.item), agreement_id,
                         used + 1, Append(w, Row(o)))
  ELSE StoreDone(tbls, agreement_id, used, w)

\* lines 336-337: the property write of a purchase agreement
PropertyStep(tbls, data, agreement_id, uuid, fail, w) ==
  IF Truthy(PropertyData(data).property_address)
  THEN LET p == store_property(PropertyData(data), uuid, fail # "property")
       IN IF p.raised THEN StoreFailed(tbls, 1, w)
          ELSE OwnerStep(PutItem(tbls, p.table, p.item), data, agreement_id,
                         uuid, 1, fail, Append(w, Row(p)))
  ELSE OwnerStep(tbls, data, agreement_id, uuid, 0, fail, w)

\* lines 319-347
StorePurchase(tbls, data, uuid, rand1, rand2, fail) ==
  LET a == store_purchase_agreement(data, rand1, rand2, fail # "primary")
  IN IF a.raised THEN StoreFailed(tbls, 0, <<>>)
     ELSE PropertyStep(PutItem(tbls, a.table, a.item), data, a.id, uuid, fail,
                       <<Row(a)>>)

\* variant: unclassified records are stored as settlements
StoreExtractedDataNoCatchAll(category, data, tbls, uuid, rand1, rand2, fail) ==
  IF Contains(category, SubIncomeVerification)
  THEN SingleWrite(tbls, store_income_verification(data, uuid, fail # "primary"))
  ELSE IF Contains(category, SubPurchaseAgreement)
  THEN StorePurchase(tbls, data, uuid, rand1, rand2, fail)
  ELSE SingleWrite(tbls, store_settlement(data, uuid, rand1, fail # "primary"))

StoreExtractedData(category, data, tbls, uuid, rand1, rand2, fail) ==
  IF Contains(category, SubIncomeVerification)
  THEN SingleWrite(tbls, store_income_verification(data, uuid, fail # "primary"))
  ELSE IF Contains(category, SubSettlement)
  THEN SingleWrite(tbls, store_settlement(data, uuid, rand1, fail # "primary"))
  ELSE IF Contains(category, SubPurchaseAgreement)
  THEN StorePurchase(tbls, data, uuid, rand1, rand2, fail)
  ELSE SingleWrite(tbls, store_owner_profile(CatchAllData(data), uuid, fail # "primary"))

Fails == {"none", "primary", "property", "owner"}

(***************************************************************************)
(* The inputs the model draws from                                         *)
(***************************************************************************)
\* uploaded documents: name, text carried by the bytes, behaviour of the
\* format library
Documents ==
  {[name |-> NamePdf, text |-> TextDeed,  lib |-> "ok"],
   [name |-> NamePdf, text |-> TextDeed,  lib |-> "raise"],
   [name |-> NameTxt, text |-> TextShort, lib |-> "ok"]}

\* replies of the oracle to the classification prompt
ClassReplies ==
  {TextReply(SettlementDocuments), TextReply(ReplyPaddedIncome),
   TextReply(ReplyLowerPurchase), TextReply(ReplyTwoNames),
   TextReply(ReplyUnclear), NoCompletion, CallRaises}

AllFields == <<"m_buyer", "m_seller", "m_addr", "m_sale", "m_price",
               "m_emp", "m_employer", "m_income">>

NumFields == <<"m_buyer", "m_seller", "m_addr_num", "m_sale", "m_price",
               "m_emp_num", "m_employer", "m_income">>

MissingFields == <<"m_buyer", "m_seller_ws", "m_addr", "m_price_zero",
                   "m_emp", "m_employer", "m_income_0", "m_income_str">>

Obj(members) == <<"{">> \o members \o <<"}">>

\* replies of the oracle to the extraction prompt
ExtractTexts ==
  {Obj(AllFields), Obj(NumFields), Obj(MissingFields),
   <<"x", " ">> \o Obj(AllFields) \o <<" ", "x">>,
   <<"[", "]">>, <<"x">>}

ExtractReplies == {TextReply(x) : x \in ExtractTexts} \cup {CallRaises}

(***************************************************************************)
(* State                                                                   *)
(***************************************************************************)
VARIABLES
  arn,                \* step_function_arn is configured
  n,                  \* documents of the batch already handled
  pc,                 \* position of process_document_enhanced / batch loop
  doc,                \* the document being processed
  extracted_text,
  classification,
  extracted_data,
  path,               \* return path classify_and_extract took
  conf,               \* (confidence_score, missing_fields)
  upload,             \* the upload future: none, running, ok, failed
  s3_path,
  s3objects,          \* keys in the bucket
  syncCalls,          \* start_execution calls accepted
  tables,             \* the five DynamoDB tables
  nextUuid,
  record_id,
  outcome,            \* none, Rejected, Persisted, Failed
  session,            \* st.session_state counters
  processing_results, \* len(processing_results) of the batch loop
  written,            \* rows put by the last store_extracted_data call
  atStart,            \* bucket, sync count, tables, counters at the run's start
  effects,            \* storage side effects of the current run, in order
  raised,             \* stages of the current run in which a call raised
  response,           \* the last answer of the agent runtime
  validated           \* what each validator variant returns for response

vars == <<arn, n, pc, doc, extracted_text, classification, extracted_data,
          path, conf, upload, s3_path, s3objects, syncCalls, tables, nextUuid,
          record_id, outcome, session, processing_results, written, atStart,
          effects, raised, response, validated>>

NoDoc == [name |-> <<>>, text |-> <<>>, lib |-> "ok"]

NoConf == [score |-> FullScore, missing |-> <<>>]

NoData == [x \in {} |-> None]

NoStart ==
  [s3objects |-> {}, syncCalls |-> 0, tables |-> EmptyTables,
   session |-> [x \in {} |-> 0]]

NoResponse == [kind |-> "none", text |-> <<>>]

NoVerdict == [strict |-> <<>>, lenient |-> <<>>, permissive |-> <<>>]

\* lines 21-36
InitSession ==
  [documents_processed |-> 0,
   successful_uploads  |-> 0,
   dynamodb_records    |-> 0,
   processing_times    |-> 0,
   category_counts     |-> [c \in Categories |-> 0]]

RunInit ==
  /\ extracted_text = <<>>
  /\ classification = <<>>
  /\ extracted_data = NoData
  /\ path = "none"
  /\ conf = NoConf
  /\ upload = "none"
  /\ s3_path = <<>>
  /\ record_id = <<>>
  /\ outcome = "none"
  /\ written = <<>>
  /\ atStart = NoStart
  /\ effects = <<>>
  /\ raised = {}
  /\ response = NoResponse
  /\ validated = NoVerdict

Init ==
  /\ arn \in BOOLEAN
  /\ n = 0
  /\ pc = "idle"
  /\ doc = NoDoc
  /\ RunInit
  /\ s3objects = {}
  /\ syncCalls = 0
  /\ tables = EmptyTables
  /\ nextUuid = 1
  /\ session = InitSession
  /\ processing_results = 0

(***************************************************************************)
(* process_document_enhanced, one action per stage                         *)
(***************************************************************************)
\* batch loop, line 360: the next file of uploaded_files enters the pipeline
StartDocument(d) ==
  /\ pc = "idle"
  /\ n < MaxDocs
  /\ doc' = d
  /\ pc' = "text"
  /\ atStart' = [s3objects |-> s3objects, syncCalls |-> syncCalls,
                 tables |-> tables, session |-> session]
  /\ UNCHANGED <<response, validated, written, arn, n, extracted_text, classification, extracted_data,
                 path, conf, upload, s3_path, s3objects, syncCalls, tables,
                 nextUuid, record_id, outcome, session, processing_results,
                 effects, raised>>

\* classify_and_extract lines 81-106: text extraction and the short-text
\* early return (called with s3_path = "")
ExtractText ==
  /\ pc = "text"
  /\ LET text == ExtractTextFromFile(doc)
     IN /\ extracted_text' = text
        /\ raised' = IF doc.lib = "raise"
                        /\ FileExtension(doc.name) \in {<<"p","d","f">>, <<"d","o","c","x">>}
                     THEN raised \cup {"text"} ELSE raised
        /\ IF TextUnreadable(text)
           THEN LET r == ShortTextReturn(text, <<>>)
                IN /\ classification' = r.classification
                   /\ extracted_data' = r.data
                   /\ path' = r.path
                   /\ pc' = "gate"
           ELSE /\ pc' = "classify"
                /\ UNCHANGED <<response, validated, classification, extracted_data, path>>
  /\ UNCHANGED <<response, validated, written, atStart, arn, n, doc, conf, upload, s3_path, s3objects, syncCalls,
                 tables, nextUuid, record_id, outcome, session,
                 processing_results, effects>>

\* lines 122-135: classification call and validator
ClassifyCall(reply) ==
  /\ pc = "classify"
  /\ response' = reply
  /\ classification' = ValidateLenient(CallBedrockAgent(reply))
  /\ raised' = IF reply.kind = "raise" THEN raised \cup {"classify"} ELSE raised
  /\ pc' = "extract"
  /\ UNCHANGED <<validated, written, atStart, arn, n, doc, extracted_text, extracted_data, path, conf,
                 upload, s3_path, s3objects, syncCalls, tables, nextUuid,
                 record_id, outcome, session, processing_results, effects>>

\* lines 138-179: extraction call, parse, metadata, return
ExtractCall(reply) ==
  /\ pc = "extract"
  /\ response' = reply
  /\ LET extracted_data_str == CallBedrockAgent(reply)
         r == ParseAndReturn(extracted_data_str, classification,
                             extracted_text, <<>>, doc.name)
     IN /\ classification' = r.classification
        /\ extracted_data' = r.data
        /\ path' = r.path
        /\ raised' = raised
                     \cup (IF reply.kind = "raise" THEN {"extract"} ELSE {})
                     \cup (IF JsonFails(extracted_data_str) THEN {"parse"} ELSE {})
                     \cup (IF r.path = "fallback" THEN {"reparse"} ELSE {})
                     \cup (IF r.path = "exception" THEN {"handler"} ELSE {})
  /\ pc' = "gate"
  /\ UNCHANGED <<validated, written, atStart, arn, n, doc, extracted_text, conf, upload, s3_path,
                 s3objects, syncCalls, tables, nextUuid, record_id, outcome,
                 session, processing_results, effects>>

\* Home.py lines 231-250: the gate; on failure the early return
Gate ==
  /\ pc = "gate"
  /\ LET c == CheckDataConfidence(extracted_data, classification)
     IN /\ conf' = c
        /\ IF GateFails(c)
           THEN /\ session' = [session EXCEPT
                                 !.processing_times = @ + 1,
                                 !.documents_processed = @ + 1]
                /\ outcome' = "Rejected"
                /\ pc' = "done"
           ELSE /\ pc' = "upload"
                /\ UNCHANGED <<response, validated, session, outcome>>
  /\ UNCHANGED <<response, validated, written, atStart, arn, n, doc, extracted_text, classification, extracted_data,
                 path, upload, s3_path, s3objects, syncCalls, tables,
                 nextUuid, record_id, processing_results, effects, raised>>

\* upload_to_s3_async lines 70-71: folder and key of the object
S3Key(category, filename) ==
  Lower(ReplaceChar(category, " ", "_")) \o <<"/">> \o filename

\* lines 254, 78-79: executor.submit(upload_task)
SubmitUpload ==
  /\ pc = "upload"
  /\ upload' = "running"
  /\ pc' = "join"
  /\ UNCHANGED <<response, validated, written, atStart, arn, n, doc, extracted_text, classification, extracted_data,
                 path, conf, s3_path, s3objects, syncCalls, tables, nextUuid,
                 record_id, outcome, session, processing_results, effects,
                 raised>>

\* upload_task in the executor thread, lines 69-74: the object is stored
UploadTaskOk ==
  /\ upload = "running"
  /\ upload' = "ok"
  /\ s3objects' = s3objects \cup {S3Key(classification, doc.name)}
  /\ effects' = Append(effects, "upload")
  /\ UNCHANGED <<response, validated, written, atStart, arn, n, pc, doc, extracted_text, classification,
                 extracted_data, path, conf, s3_path, syncCalls, tables,
                 nextUuid, record_id, outcome, session, processing_results,
                 raised>>

\* upload_task, lines 75-76: upload_fileobj raised, the task returns None
UploadTaskFail ==
  /\ upload = "running"
  /\ upload' = "failed"
  /\ UNCHANGED <<response, validated, written, atStart, arn, n, pc, doc, extracted_text, classification,
                 extracted_data, path, conf, s3_path, s3objects, syncCalls,
                 tables, nextUuid, record_id, outcome, session,
                 processing_results, effects, raised>>

\* lines 78-80 and 255: leaving the executor's with-block and
\* future.result() both wait until the task has finished
\* variant: the result is taken without waiting for the task
JoinReadyNoWait == upload # "none"

JoinReady == upload \in {"ok", "failed"}

\* variant: the task returns the key although upload_fileobj raised
TaskResultAlwaysKey == S3Key(classification, doc.name)

\* lines 69-76: upload_task returns the key, or None after an exception
TaskResult ==
  IF upload = "failed" THEN <<>> ELSE S3Key(classification, doc.name)

\* variant: a failed upload is reported but the run goes on to the next stage
JoinUploadGoesOn ==
  /\ pc = "join"
  /\ JoinReady
  /\ s3_path' = TaskResult
  /\ outcome' = IF upload = "failed" THEN "Failed" ELSE outcome
  /\ pc' = "sync"
  /\ UNCHANGED <<response, validated, written, atStart, arn, n, doc,
                 extracted_text, classification, extracted_data, path, conf,
                 upload, s3objects, syncCalls, tables, nextUuid, record_id,
                 session, processing_results, effects, raised>>

\* lines 255-259: take the result; without a key the run fails
JoinUpload ==
  /\ pc = "join"
  /\ JoinReady
  /\ s3_path' = TaskResult
  /\ IF TaskResult = <<>>
     THEN /\ outcome' = "Failed"
          /\ pc' = "done"
     ELSE /\ pc' = "sync"
          /\ UNCHANGED outcome
  /\ UNCHANGED <<response, validated, written, atStart, arn, n, doc, extracted_text, classification, extracted_data,
                 path, conf, upload, s3objects, syncCalls, tables, nextUuid,
                 record_id, session, processing_results, effects, raised>>

\* variant: a raising start_execution ends the run as failed
SyncStopsOnFailure(accepted) ==
  /\ pc = "sync"
  /\ IF arn /\ accepted
     THEN /\ syncCalls' = syncCalls + 1
          /\ effects' = Append(effects, "sync")
          /\ pc' = "store"
          /\ UNCHANGED <<raised, outcome>>
     ELSE /\ raised' = IF arn THEN raised \cup {"sync"} ELSE raised
          /\ outcome' = IF arn THEN "Failed" ELSE outcome
          /\ pc' = IF arn THEN "done" ELSE "store"
          /\ UNCHANGED <<syncCalls, effects>>
  /\ UNCHANGED <<response, validated, written, atStart, arn, n, doc,
                 extracted_text, classification, extracted_data, path, conf,
                 upload, s3_path, s3objects, tables, nextUuid, record_id,
                 session, processing_results>>

\* lines 261-271: the knowledge-base sync trigger, called only with a
\* configured ARN; a raising start_execution is caught and only warned about
Sync(accepted) ==
  /\ pc = "sync"
  /\ IF arn /\ accepted
     THEN /\ syncCalls' = syncCalls + 1
          /\ effects' = Append(effects, "sync")
          /\ UNCHANGED raised
     ELSE /\ raised' = IF arn THEN raised \cup {"sync"} ELSE raised
          /\ UNCHANGED <<syncCalls, effects>>
  /\ pc' = "store"
  /\ UNCHANGED <<response, validated, written, atStart, arn, n, doc,
                 extracted_text, classification, extracted_data, path, conf,
                 upload, s3_path, s3objects, tables, nextUuid, record_id,
                 outcome, session, processing_results>>

S3Scheme == <<"s","3",":","/","/">>

\* lines 273-276: the record handed to store_extracted_data
RecordToStore(data, key, c) ==
  SetItem(SetItem(SetItem(data,
      "document_s3_path", S(S3Scheme \o BucketName \o <<"/">> \o key)),
      "confidence_score", [t |-> "tenths", v |-> <<c.score>>]),
      "missing_fields", L(c.missing))

\* lines 286-293: the counters of a run that reached persistence
CountPersisted(ss, category, id) ==
  [ss EXCEPT !.processing_times = @ + 1,
             !.documents_processed = @ + 1,
             !.successful_uploads = @ + 1,
             !.dynamodb_records = IF id # <<>> THEN @ + 1 ELSE @,
             !.category_counts[category] = @ + 1]

\* lines 273-299: store the record, update the counters, return
Persist(rand1, rand2, fail) ==
  /\ pc = "store"
  /\ LET data == RecordToStore(extracted_data, s3_path, conf)
         r    == StoreExtractedData(classification, data, tables, nextUuid,
                                    rand1, rand2, fail)
     IN /\ extracted_data' = data
        /\ tables' = r.tables
        /\ nextUuid' = nextUuid + r.uuids
        /\ record_id' = r.ret
        /\ written' = r.written
        /\ session' = CountPersisted(session, classification, r.ret)
  /\ effects' = Append(effects, "store")
  /\ outcome' = "Persisted"
  /\ pc' = "done"
  /\ UNCHANGED <<response, validated, atStart, arn, n, doc, extracted_text, classification, path, conf,
                 upload, s3_path, s3objects, syncCalls, processing_results,
                 raised>>

\* batch loop lines 361-386: result[0] is None only for a failed run
ReportedOk == outcome # "Failed"

BatchNext ==
  /\ pc = "done"
  /\ processing_results' = IF ReportedOk THEN processing_results + 1
                           ELSE processing_results
  /\ n' = n + 1
  /\ pc' = "idle"
  /\ doc' = NoDoc
  /\ extracted_text' = <<>>
  /\ classification' = <<>>
  /\ extracted_data' = NoData
  /\ path' = "none"
  /\ conf' = NoConf
  /\ upload' = "none"
  /\ s3_path' = <<>>
  /\ record_id' = <<>>
  /\ outcome' = "none"
  /\ written' = <<>>
  /\ atStart' = NoStart
  /\ effects' = <<>>
  /\ raised' = {}
  /\ response' = NoResponse
  /\ UNCHANGED <<validated, arn, s3objects, syncCalls, tables, nextUuid, session>>

Next ==
  \/ pc = "idle" /\ \E d \in Documents : StartDocument(d)
  \/ ExtractText
  \/ pc = "classify" /\ \E reply \in ClassReplies : ClassifyCall(reply)
  \/ pc = "extract" /\ \E reply \in ExtractReplies : ExtractCall(reply)
  \/ Gate
  \/ SubmitUpload
  \/ UploadTaskOk
  \/ UploadTaskFail
  \/ JoinUpload
  \/ \E accepted \in BOOLEAN : Sync(accepted)
  \/ pc = "store" /\ \E rand1, rand2 \in RandInts, fail \in Fails : Persist(rand1, rand2, fail)
  \/ BatchNext

Spec == Init /\ [][Next]_vars

(***************************************************************************)
(* Properties                                                              *)
(***************************************************************************)
\* the storage the run started with is the storage now: nothing uploaded,
\* no sync triggered, no row written
StorageUntouched ==
  /\ s3objects = atStart.s3objects
  /\ syncCalls = atStart.syncCalls
  /\ tables = atStart.tables
  /\ upload = "none"
  /\ written = <<>>

\* C1: a run whose confidence gate fails (score below 0.6 or a required
\* field missing) ends as Rejected ("needs manual review") and has uploaded
\* nothing, triggered no knowledge-base sync and written no table row.
C1_GateFailureLeavesNoArtifacts ==
  (pc = "done" /\ (conf.score < Threshold \/ conf.missing # <<>>))
    => (outcome = "Rejected" /\ StorageUntouched)

\* a second document is rejected after a first one was stored
C1_Witness ==
  /\ pc = "done"
  /\ conf.missing # <<>>
  /\ outcome = "Rejected"
  /\ path = "normal"
  /\ tables # EmptyTables

\* C2: table persistence of a document starts only after that document's
\* upload has completed successfully: while the run is at or past the
\* persistence step, or has written a row, its upload is finished and the
\* object is in the bucket.
C2_PersistAfterUpload ==
  (pc \in {"sync", "store"} \/ outcome = "Persisted" \/ written # <<>>
     \/ (pc # "idle" /\ tables # atStart.tables))
    => (upload = "ok" /\ S3Key(classification, doc.name) \in s3objects)

C2_Witness ==
  /\ outcome = "Persisted"
  /\ written # <<>>
  /\ upload = "ok"

\* the current run has called store_extracted_data
StoreCalled == \E i \in 1..Len(effects) : effects[i] = "store"

\* C5 (as claimed): when the primary table write of a document raises, the
\* run ends as Failed and the document is not reported as processed.
C5_PrimaryWriteFailureEndsFailed ==
  (pc = "done" /\ StoreCalled /\ written = <<>>)
    => (outcome = "Failed" /\ ~ReportedOk)

\* C6 (as claimed): a run in which a stage of classify_and_extract raised
\* (text extraction, classification call, extraction call, parsing) ends as
\* Failed, never as Rejected or Persisted.
C6_StageExceptionEndsFailed ==
  (pc = "done" /\ raised # {}) => outcome = "Failed"

\* the exceptions after which no required field can be present in the record
FatalToGate == {"extract", "reparse", "handler"}

\* C6 (amended): an exception raised inside a stage of classify_and_extract
\* never moves the run to Failed; it is recovered there and the run goes on
\* to the gate.  Such a run is Failed only through a failed upload, and when
\* the extraction call raised, no JSON could be parsed, or the exception
\* handler returned its error record, the run ends as Rejected.
C6_StageExceptionIsRecovered ==
  (pc = "done" /\ raised # {})
    => /\ outcome = "Failed" => upload = "failed"
       /\ raised \cap FatalToGate # {} => outcome = "Rejected"

C6_Witness ==
  /\ pc = "done"
  /\ "handler" \in raised
  /\ path = "exception"
  /\ outcome = "Rejected"

MetadataFields == {"document_s3_path", "classification", "filename"}

\* the row of the primary table written by the current run
PrimaryRows ==
  {r \in tables[written[1].table] : r.pk.v = written[1].id}

\* C8: the record handed to store_extracted_data, and the serialized record
\* in the primary row written from it, contain document_s3_path,
\* classification and filename, whichever path classify_and_extract took.
C8_PersistedRecordHasMetadata ==
  outcome = "Persisted"
    => /\ MetadataFields \subseteq DOMAIN extracted_data
       /\ written # <<>> =>
            /\ PrimaryRows # {}
            /\ \A r \in PrimaryRows :
                 MetadataFields \subseteq DOMAIN r.raw_extracted_data.v

C8_Witness ==
  /\ outcome = "Persisted"
  /\ path = "embedded"
  /\ written # <<>>
  /\ extracted_data["filename"] = S(doc.name)

(***************************************************************************)
(* store_extracted_data called directly                                    *)
(*                                                                         *)
(* The router is a public method: this specification calls it with a       *)
(* category and a record of the caller's choice, up to MaxCalls times, on  *)
(* the tables the earlier calls left.  classification and extracted_data   *)
(* hold the arguments of the last call, record_id its result, written the  *)
(* rows it put and atStart.tables the tables before it.                    *)
(***************************************************************************)
MaxCalls == 2

RouterCategories ==
  {IncomeVerifications, SettlementDocuments, PurchaseAgreements,
   InvalidDocument, SettlementStatement}

\* records: address and buyer both present, neither present, a numeric
\* address, a numeric buyer, and an income record with a numeric name
RouterRecords ==
  {ObjectOf(Obj(<<"m_buyer", "m_seller", "m_addr", "m_price", "m_emp">>)),
   ObjectOf(Obj(<<"m_seller", "m_price">>)),
   ObjectOf(Obj(<<"m_buyer", "m_addr_num">>)),
   ObjectOf(Obj(<<"m_buyer_num", "m_addr">>)),
   ObjectOf(Obj(<<"m_emp_num", "m_employer", "m_income">>))}

InitStore ==
  /\ arn = FALSE
  /\ n = 0
  /\ pc = "router"
  /\ doc = NoDoc
  /\ RunInit
  /\ s3objects = {}
  /\ syncCalls = 0
  /\ tables = EmptyTables
  /\ nextUuid = 1
  /\ session = InitSession
  /\ processing_results = 0

RouterCall(category, data, rand1, rand2, fail) ==
  /\ pc = "router"
  /\ n < MaxCalls
  /\ LET r == StoreExtractedData(category, data, tables, nextUuid,
                                 rand1, rand2, fail)
     IN /\ tables' = r.tables
        /\ nextUuid' = nextUuid + r.uuids
        /\ record_id' = r.ret
        /\ written' = r.written
  /\ classification' = category
  /\ extracted_data' = data
  /\ atStart' = [atStart EXCEPT !.tables = tables]
  /\ n' = n + 1
  /\ UNCHANGED <<response, validated, arn, pc, doc, extracted_text, path, conf, upload, s3_path,
                 s3objects, syncCalls, outcome, session, processing_results,
                 effects, raised>>

NextStore ==
  \E category \in RouterCategories, data \in RouterRecords,
     rand1, rand2 \in RandInts, fail \in Fails :
       RouterCall(category, data, rand1, rand2, fail)

SpecStore == InitStore /\ [][NextStore]_vars

(***************************************************************************)
(* Properties of store_extracted_data, stated on the state after a call    *)
(***************************************************************************)
Called == pc = "router" /\ n > 0

HasAddress == Truthy(GetOr(extracted_data, "property_address", S(<<>>)))

HasBuyer == Truthy(Get(extracted_data, "buyer_name"))

\* the writes a purchase-agreement record asks for
ExpectedWrites ==
  1 + (IF HasAddress THEN 1 ELSE 0) + (IF HasBuyer THEN 1 ELSE 0)

\* the agreement row was put and a derived write after it raised
DerivedFailed ==
  /\ Called
  /\ classification = PurchaseAgreements
  /\ Len(written) >= 1
  /\ Len(written) < ExpectedWrites

\* C3 (as claimed): when a derived write fails after the purchase-agreement
\* row was written, the call still returns the agreement's identifier.
C3_DerivedFailureReturnsAgreementId ==
  DerivedFailed => (record_id # <<>> /\ record_id = written[1].id)

\* C4: when a derived write fails, the purchase-agreement row the call has
\* written is still in its table when the call returns, and the call has
\* removed no row of another key from that table.
C4_AgreementRowStays ==
  DerivedFailed =>
    /\ written[1].table = "purchase_agreement"
    /\ \E r \in tables["purchase_agreement"] :
         /\ r.pk = N(written[1].id)
         /\ r.raw_extracted_data = Dumps(extracted_data)
         /\ \A old \in atStart.tables["purchase_agreement"] :
              old \in tables["purchase_agreement"]
                \/ (old.pk = r.pk /\ old.sk = r.sk)

C4_Witness ==
  /\ DerivedFailed
  /\ Len(written) = 2
  /\ record_id = <<>>
  /\ tables["property"] # {}
  /\ tables["owner_profile"] = {}

\* rows of table t among the rows w of one call
RECURSIVE NumWritten(_, _)
NumWritten(w, t) ==
  IF w = <<>> THEN 0
  ELSE (IF w[1].table = t THEN 1 ELSE 0) + NumWritten(Tail(w), t)

\* C7 (as claimed): every successful store call adds to each table as many rows as it
\* has put there, each under an identifier no earlier row of the table has,
\* so that n successful puts leave n rows.
C7_EveryPutAddsARow ==
  [][record_id' # <<>> =>
     \A t \in TableNames :
       /\ Cardinality(tables'[t]) = Cardinality(tables[t]) + NumWritten(written', t)
       /\ \A i \in 1..Len(written') :
            written'[i].table = t =>
              \A r \in tables[t] : r.pk.v # written'[i].id]_vars

\* the three rows of a full purchase agreement, in the order they are put
ThreeRows ==
  /\ Len(written) = 3
  /\ written[1].table = "purchase_agreement"
  /\ written[2].table = "property"
  /\ written[3].table = "owner_profile"
  /\ Cardinality({written[i].id : i \in 1..3}) = 3
  /\ \A i \in 1..3 : \E r \in tables[written[i].table] : r.pk.v = written[i].id

OneRow ==
  /\ Len(written) = 1
  /\ written[1].table = "purchase_agreement"
  /\ \E r \in tables["purchase_agreement"] : r.pk.v = written[1].id

TargetTable ==
  IF classification = IncomeVerifications THEN "income_verification"
  ELSE IF classification = SettlementDocuments THEN "settlement"
  ELSE "owner_profile"

\* the tables other than t are as they were before the call
OthersUnchanged(t) ==
  \A o \in TableNames \ {t} : tables[o] = atStart.tables[o]

\* the one row of the call, in table t under the returned identifier; the
\* catch-all row of the owner-profile table carries the serialized record
OneRowIn(t) ==
  /\ Len(written) = 1
  /\ written[1] = [table |-> t, id |-> record_id]
  /\ Cardinality(tables[t]) = Cardinality(atStart.tables[t]) + 1
  /\ \E r \in tables[t] \ atStart.tables[t] :
       /\ r.pk.v = record_id
       /\ IF t = "owner_profile"
          THEN r.raw_extracted_data.v["raw_extracted_data"] = Dumps(extracted_data)
          ELSE r.raw_extracted_data = Dumps(extracted_data)

RoutedTable ==
  IF Contains(classification, SubIncomeVerification) THEN "income_verification"
  ELSE IF Contains(classification, SubSettlement) THEN "settlement"
  ELSE "owner_profile"

MaxTextLen == 4

ParseAlphabet == {"{", "}", "7", "x", " ", "m_buyer", "m_file"}

\* a document text longer than the preview kept in the fallback record
LongText == [i \in 1..(TextPreviewLen + 1) |-> IF i % 2 = 1 THEN "a" ELSE "b"]

ParseTexts == UNION {[1..k -> ParseAlphabet] : k \in 0..MaxTextLen}

ParseReplies == {TextReply(x) : x \in ParseTexts} \cup {NoCompletion, CallRaises}

InitParse ==
  /\ arn = FALSE
  /\ n = 0
  /\ pc = "extract"
  /\ doc = [name |-> NamePdf, text |-> TextDeed, lib |-> "ok"]
  /\ extracted_text \in {TextDeed, LongText}
  /\ classification = PurchaseAgreements
  /\ extracted_data = NoData
  /\ path = "none"
  /\ conf = NoConf
  /\ upload = "none"
  /\ s3_path = <<>>
  /\ record_id = <<>>
  /\ outcome = "none"
  /\ written = <<>>
  /\ atStart = NoStart
  /\ effects = <<>>
  /\ raised = {}
  /\ response = NoResponse
  /\ validated = NoVerdict
  /\ s3objects = {}
  /\ syncCalls = 0
  /\ tables = EmptyTables
  /\ nextUuid = 1
  /\ session = InitSession
  /\ processing_results = 0

ParseStep(reply) == ExtractCall(reply)

NextParse == \E reply \in ParseReplies : ParseStep(reply)

SpecParse == InitParse /\ [][NextParse]_vars

\* the text the parse step was given
extracted_data_str == CallBedrockAgent(response)

Parsed == pc = "gate" /\ response # NoResponse

\* C12 (as claimed): for every extraction text the parse step raises nothing
\* and yields the mapping parsed from the text or the fallback record, for
\* the category that was decided.
C12_ParseNeverRaises ==
  Parsed =>
    /\ "handler" \notin raised
    /\ path \in {"normal", "embedded", "fallback"}
    /\ classification = PurchaseAgreements

\* positions of the first "{" and the last "}" of the text, 0 when absent
FirstBrace ==
  IF \E i \in 1..Len(extracted_data_str) : extracted_data_str[i] = "{"
  THEN CHOOSE i \in 1..Len(extracted_data_str) :
         /\ extracted_data_str[i] = "{"
         /\ \A j \in 1..(i - 1) : extracted_data_str[j] # "{"
  ELSE 0

LastBrace ==
  IF \E i \in 1..Len(extracted_data_str) : extracted_data_str[i] = "}"
  THEN CHOOSE i \in 1..Len(extracted_data_str) :
         /\ extracted_data_str[i] = "}"
         /\ \A j \in (i + 1)..Len(extracted_data_str) : extracted_data_str[j] # "}"
  ELSE 0

BraceText == SubSeq(extracted_data_str, FirstBrace, LastBrace)

\* the whole text is not JSON but its first-"{"-to-last-"}" part is an object
EmbeddedObject ==
  /\ Parsed
  /\ JsonFails(extracted_data_str)
  /\ FirstBrace # 0
  /\ IsObjectText(BraceText)

\* C13 (as claimed): when only the first-"{"-to-last-"}" part of the text is
\* a JSON object, the record has every field of that object with its value.
C13_EmbeddedObjectFieldsKept ==
  EmbeddedObject =>
    \A k \in DOMAIN ObjectOf(BraceText) :
      k \in DOMAIN extracted_data /\ extracted_data[k] = ObjectOf(BraceText)[k]

\* C13 (amended): the record has every field of that object with its value,
\* except document_s3_path, classification and filename, which are set to
\* the pipeline's values after the parse.
C13_EmbeddedObjectFieldsKeptButMetadata ==
  EmbeddedObject =>
    /\ path = "embedded"
    /\ \A k \in DOMAIN ObjectOf(BraceText) \ MetadataFields :
         k \in DOMAIN extracted_data /\ extracted_data[k] = ObjectOf(BraceText)[k]
    /\ extracted_data["filename"] = S(doc.name)
    /\ extracted_data["classification"] = S(classification)
    /\ extracted_data["document_s3_path"] = S(<<>>)

C13_Witness ==
  /\ EmbeddedObject
  /\ extracted_data_str[1] = "x"
  /\ FirstBrace > 1
  /\ "buyer_name" \in DOMAIN extracted_data
  /\ extracted_data["buyer_name"] = S(Al)

\* C14: when neither the whole text nor its first-"{"-to-last-"}" part is
\* JSON, the record is the fallback record: raw_text is the oracle text,
\* extracted_text_preview the first 1000 characters of the document text,
\* and the three metadata fields are set.
C14_FallbackRecordKeepsRawText ==
  (Parsed /\ JsonFails(extracted_data_str)
     /\ (FirstBrace = 0 \/ JsonFails(BraceText)))
    => /\ path = "fallback"
       /\ DOMAIN extracted_data =
            {"raw_text", "extracted_text_preview"} \cup MetadataFields
       /\ extracted_data["raw_text"] = S(extracted_data_str)
       /\ extracted_data["extracted_text_preview"] =
            S(SubSeq(extracted_text, 1,
                     IF Len(extracted_text) > 1000 THEN 1000 ELSE Len(extracted_text)))
       /\ extracted_data["filename"] = S(doc.name)
       /\ extracted_data["classification"] = S(classification)
       /\ extracted_data["document_s3_path"] = S(<<>>)

C14_Witness ==
  /\ Parsed
  /\ path = "fallback"
  /\ FirstBrace # 0 /\ LastBrace > FirstBrace
  /\ Len(extracted_text) > 1000
  /\ extracted_data["raw_text"] = S(extracted_data_str)

(***************************************************************************)
(* Properties of the confidence gate                                       *)
(***************************************************************************)
\* check_data_confidence has returned for the current document
GateChecked == pc \in {"upload", "join", "sync", "store", "done"}

\* the field is absent, falsy, or a whitespace-only string
AbsentOrEmpty(field) ==
  \/ field \notin DOMAIN extracted_data
  \/ extracted_data[field].t = "none"
  \/ extracted_data[field].t = "num" /\ extracted_data[field].v = <<"0">>
  \/ extracted_data[field].t # "num"
       /\ \A i \in 1..Len(extracted_data[field].v) :
            extracted_data[field].v[i] \in Whitespace

\* C15: for a category with required fields the score (in tenths) is 10
\* minus 2 for each required field that is absent, falsy or whitespace-only,
\* and the missing list holds exactly those fields, in the order of the
\* required-field list; an Income Verifications record without
\* annual_income has a score of at most 8 and lists annual_income.
C15_ScoreCountsMissingFields ==
  (GateChecked /\ classification \in DOMAIN required_fields) =>
    /\ conf.missing = SelectSeq(required_fields[classification], AbsentOrEmpty)
    /\ conf.score = 10 - 2 * Len(conf.missing)
    /\ (classification = IncomeVerifications /\ AbsentOrEmpty("annual_income"))
         => /\ conf.score <= 8
            /\ \E i \in 1..Len(conf.missing) : conf.missing[i] = "annual_income"

C15_Witness ==
  /\ GateChecked
  /\ classification = IncomeVerifications
  /\ path = "normal"
  /\ conf.missing = <<"annual_income">>
  /\ conf.score = 8

(***************************************************************************)
(* The validators on their own                                             *)
(*                                                                         *)
(* response is any answer of the agent runtime to a classification prompt: *)
(* a text made of at most MaxParts parts, a response without completion,   *)
(* or an exception.  Validate applies the three validator variants to it.  *)
(***************************************************************************)
MaxParts == 2

LowerIncome == Lower(IncomeVerifications)

UpperPurchase == <<"P","U","R","C","H","A","S","E"," ","A","G","R","E","E","M","E","N","T","S">>

\* parts of an oracle answer: blanks, junk, category names in several letter
\* cases, keywords of each list, and the sentinel
ReplyParts ==
  {<<" ">>, <<"x">>, SettlementDocuments, IncomeVerifications,
   PurchaseAgreements, LowerIncome, UpperPurchase,
   <<"P","a","y","m","e","n","t">>, <<"s","a","l","a","r","y">>,
   <<"o","f","f","e","r">>, InvalidDocument}

RECURSIVE Joined(_)
Joined(parts) ==
  IF parts = <<>> THEN <<>> ELSE Head(parts) \o Joined(Tail(parts))

ValidatorTexts ==
  {Joined(parts) : parts \in UNION {[1..k -> ReplyParts] : k \in 0..MaxParts}}

ValidatorReplies ==
  {TextReply(x) : x \in ValidatorTexts} \cup {NoCompletion, CallRaises}

InitValidate ==
  /\ arn = FALSE
  /\ n = 0
  /\ pc = "validate"
  /\ doc = NoDoc
  /\ RunInit
  /\ s3objects = {}
  /\ syncCalls = 0
  /\ tables = EmptyTables
  /\ nextUuid = 1
  /\ session = InitSession
  /\ processing_results = 0

Validate(reply) ==
  /\ pc = "validate"
  /\ response' = reply
  /\ validated' = [strict     |-> ValidateStrict(reply),
                   lenient    |-> ValidateLenient(CallBedrockAgent(reply)),
                   permissive |-> ValidatePermissive(reply)]
  /\ pc' = "validated"
  /\ UNCHANGED <<arn, n, doc, extracted_text, classification, extracted_data,
                 path, conf, upload, s3_path, s3objects, syncCalls, tables,
                 nextUuid, record_id, outcome, session, processing_results,
                 written, atStart, effects, raised>>

NextValidate == \E reply \in ValidatorReplies : Validate(reply)

SpecValidate == InitValidate /\ [][NextValidate]_vars

(***************************************************************************)
(* Properties of the validators                                            *)
(***************************************************************************)
\* the validators have answered on an oracle text
ValidatedText == pc = "validated" /\ response.kind = "text"

\* the category names the text contains, in any letter case
NamesIn(text) ==
  {c \in Categories : Contains(Lower(text), Lower(c))}

\* the first of the categories cs in the order Settlement Documents, Income
\* Verifications, Purchase Agreements
FirstOf(cs) ==
  IF SettlementDocuments \in cs THEN SettlementDocuments
  ELSE IF IncomeVerifications \in cs THEN IncomeVerifications
  ELSE PurchaseAgreements

\* C16: an oracle output that equals a category name after trimming is
\* returned as that category by the strict, the lenient and the permissive
\* validator.
C16_ExactNameIsReturnedByAll ==
  (ValidatedText /\ Strip(response.text) \in Categories) =>
    /\ validated.strict = Strip(response.text)
    /\ validated.lenient = Strip(response.text)
    /\ validated.permissive = Strip(response.text)

C16_Witness ==
  /\ ValidatedText
  /\ response.text # Strip(response.text)
  /\ Strip(response.text) = IncomeVerifications
  /\ validated.permissive = IncomeVerifications

\* C17 (as claimed): for every category name contained in the output, in
\* any letter case, the strict and the lenient validator return it.
C17_ContainedNameIsReturned ==
  ValidatedText =>
    \A c \in NamesIn(response.text) :
      validated.strict = c /\ validated.lenient = c

\* C17 (amended): when the output contains category names, the strict and
\* the lenient validator return the first contained name in the order
\* Settlement Documents, Income Verifications, Purchase Agreements; so they
\* return C when C is the only name contained.
C17_FirstContainedNameIsReturned ==
  (ValidatedText /\ NamesIn(response.text) # {}) =>
    /\ validated.strict = FirstOf(NamesIn(response.text))
    /\ validated.lenient = FirstOf(NamesIn(response.text))

C17_Witness ==
  /\ ValidatedText
  /\ NamesIn(response.text) = {IncomeVerifications, PurchaseAgreements}
  /\ Contains(response.text, LowerIncome)
  /\ validated.strict = IncomeVerifications
  /\ validated.lenient = IncomeVerifications

\* C18: the permissive validator returns one of the three categories for
\* every oracle text, for a response without completion and for a call
\* that raises.
C18_PermissiveNeverInvalid ==
  pc = "validated" => validated.permissive \in Categories

C18_Witness ==
  /\ pc = "validated"
  /\ response = TextReply(InvalidDocument)
  /\ validated.permissive = PurchaseAgreements
  /\ validated.strict = InvalidDocument

HasKeyword(keywords) ==
  \E keyword \in keywords :
    Contains(Lower(Strip(response.text)), keyword)

\* C20: the permissive validator uses keywords only when the output
\* contains no category name; it then returns Settlement Documents when a
\* settlement keyword is contained, else Income Verifications when an
\* income keyword is, else Purchase Agreements.
C20_KeywordStepInFixedOrder ==
  ValidatedText =>
    IF NamesIn(response.text) # {}
    THEN validated.permissive = FirstOf(NamesIn(response.text))
    ELSE validated.permissive =
           (IF HasKeyword(SettlementKeywords) THEN SettlementDocuments
            ELSE IF HasKeyword(IncomeKeywords) THEN IncomeVerifications
            ELSE PurchaseAgreements)

C20_Witness ==
  /\ ValidatedText
  /\ NamesIn(response.text) = {}
  /\ HasKeyword(SettlementKeywords)
  /\ HasKeyword(IncomeKeywords)
  /\ Contains(response.text, <<"s","a","l","a","r","y">>)
  /\ validated.permissive = SettlementDocuments

(***************************************************************************)
(* The batch loop of app.py                                                *)
(*                                                                         *)
(* For each uploaded file: classify_document (permissive validator), then  *)
(* upload_to_s3, a plain call of s3.upload_fileobj with no handler around  *)
(* it.  An exception of the upload leaves the loop and ends the script     *)
(* run: pc = "app_aborted".  n counts the files the loop has finished.     *)
(***************************************************************************)
InitApp ==
  /\ arn = FALSE
  /\ n = 0
  /\ pc = "app_idle"
  /\ doc = NoDoc
  /\ RunInit
  /\ s3objects = {}
  /\ syncCalls = 0
  /\ tables = EmptyTables
  /\ nextUuid = 1
  /\ session = InitSession
  /\ processing_results = 0

\* app.py lines 284-286 and 138-247: classify_document
AppClassify(d, reply) ==
  /\ pc = "app_idle"
  /\ n < MaxDocs
  /\ doc' = d
  /\ response' = reply
  /\ classification' = ValidatePermissive(reply)
  /\ session' = [session EXCEPT
       !.processing_times = IF reply.kind = "raise" THEN @ ELSE @ + 1,
       !.documents_processed = IF reply.kind = "raise" THEN @ ELSE @ + 1,
       !.category_counts[ValidatePermissive(reply)] = @ + 1]
  /\ raised' = IF reply.kind = "raise" THEN {"classify"} ELSE {}
  /\ outcome' = "none"
  /\ pc' = "app_classified"
  /\ UNCHANGED <<validated, arn, n, extracted_text, extracted_data, path, conf,
                 upload, s3_path, s3objects, syncCalls, tables, nextUuid,
                 record_id, processing_results, written, atStart, effects>>

\* app.py lines 292-297 and 59-64: the upload succeeds
AppUploadOk ==
  /\ pc = "app_classified"
  /\ s3objects' = s3objects \cup {S3Key(classification, doc.name)}
  /\ s3_path' = S3Key(classification, doc.name)
  /\ session' = [session EXCEPT !.successful_uploads = @ + 1]
  /\ outcome' = "Uploaded"
  /\ n' = n + 1
  /\ pc' = "app_idle"
  /\ UNCHANGED <<response, validated, arn, doc, extracted_text, classification,
                 extracted_data, path, conf, upload, syncCalls, tables,
                 nextUuid, record_id, processing_results, written, atStart,
                 effects, raised>>

\* app.py lines 63 and 294: s3.upload_fileobj raises; nothing catches it
AppUploadRaises ==
  /\ pc = "app_classified"
  /\ raised' = raised \cup {"upload"}
  /\ pc' = "app_aborted"
  /\ UNCHANGED <<response, validated, arn, n, doc, extracted_text,
                 classification, extracted_data, path, conf, upload, s3_path,
                 s3objects, syncCalls, tables, nextUuid, record_id, outcome,
                 session, processing_results, written, atStart, effects>>

NextApp ==
  \/ pc = "app_idle" /\ \E d \in Documents, reply \in ClassReplies : AppClassify(d, reply)
  \/ AppUploadOk
  \/ AppUploadRaises

SpecApp == InitApp /\ [][NextApp]_vars

\* the batch loop has stopped: every file was taken, or the run was ended
BatchStopped ==
  \/ pc = "app_aborted"
  \/ pc = "app_idle" /\ n = MaxDocs

\* C11 (as claimed): no failure of one document stops the batch: when the
\* loop stops, as many documents as were uploaded have been handled and the
\* last one has an outcome.
C11_EveryDocumentGetsAnOutcome ==
  BatchStopped => (n = MaxDocs /\ outcome # "none")

(***************************************************************************)
(* Oracle failure during classification                                    *)
(***************************************************************************)
\* C21: when the agent call for the classification raises, the adapter
\* returns the empty string, the classification becomes Settlement Documents
\* and the run goes on to the extraction stage with no terminal outcome
C21_ClassifyErrorFallsBack ==
  [][(pc = "classify" /\ response'.kind = "raise")
       => /\ CallBedrockAgent(response') = <<>>
          /\ classification' = SettlementDocuments
          /\ pc' = "extract"
          /\ outcome' = "none"]_vars

C21_Witness ==
  /\ "classify" \in raised
  /\ pc = "extract"
  /\ classification = SettlementDocuments
  /\ response = CallRaises

(***************************************************************************)
(* Knowledge-base sync trigger                                             *)
(***************************************************************************)
\* start_execution calls of the current run, accepted or raising
SyncInvocations ==
  Cardinality({i \in 1..Len(effects) : effects[i] = "sync"})
    + (IF "sync" \in raised THEN 1 ELSE 0)

\* C22: with a step-function ARN configured, the sync trigger is invoked
\* exactly once in a run whose upload succeeded and never in a run that was
\* rejected or whose upload failed; a raising trigger call does not stop the
\* run, which goes on to table persistence
C22_SyncOncePerUploadedDocument ==
  arn => /\ (pc \in {"store", "done"} /\ upload = "ok") => SyncInvocations = 1
         /\ (pc \notin {"store", "done"} \/ upload # "ok") => SyncInvocations = 0
         /\ "sync" \in raised => (pc = "store" \/ (StoreCalled /\ outcome = "Persisted"))

\* the trigger call raised and the run was persisted all the same
C22_Witness ==
  /\ arn
  /\ "sync" \in raised
  /\ SyncInvocations = 1
  /\ outcome = "Persisted"
  /\ written # <<>>

(***************************************************************************)
(* Stage order and termination of one run                                  *)
(***************************************************************************)
\* a step of a started run before table persistence: the statements of
\* process_document_enhanced and the upload task of the executor thread
RunStep ==
  \/ ExtractText
  \/ pc = "classify" /\ \E reply \in ClassReplies : ClassifyCall(reply)
  \/ pc = "extract" /\ \E reply \in ExtractReplies : ExtractCall(reply)
  \/ Gate
  \/ SubmitUpload
  \/ UploadTaskOk
  \/ UploadTaskFail
  \/ JoinUpload
  \/ \E accepted \in BOOLEAN : Sync(accepted)

\* lines 280-299: store_extracted_data catches its exceptions and returns,
\* and the run leaves the persistence stage
StoreReturns == pc = "store" /\ pc' = "done"

\* the statements of a started run are executed one after the other and the
\* executor runs the submitted task
SpecFair == Init /\ [][Next]_vars /\ WF_vars(RunStep) /\ WF_pc(StoreReturns)

\* position of each stage in the order text extraction, classification,
\* extraction, gate check, upload, (sync,) persistence
StageOrder ==
  [p \in {"idle", "text", "classify", "extract", "gate", "upload", "join",
          "sync", "store", "done"} |->
     CASE p = "idle" -> 0 [] p = "text" -> 1 [] p = "classify" -> 2
       [] p = "extract" -> 3 [] p = "gate" -> 4 [] p = "upload" -> 5
       [] p = "join" -> 6 [] p = "sync" -> 7 [] p = "store" -> 8
       [] p = "done" -> 9]

TerminalOutcomes == {"Rejected", "Persisted", "Failed"}

\* a run moves only forward through the stages; the one step that keeps the
\* position is the upload task finishing while the run waits for it
StagesInOrder ==
  (pc \notin {"idle", "done"})
     => \/ StageOrder[pc'] > StageOrder[pc]
        \/ pc' = pc /\ pc = "join" /\ upload = "running"

\* a terminal outcome is set exactly when the run is over, and never changes
OneTerminalOutcome ==
  /\ (pc' = "done") = (outcome' \in TerminalOutcomes)
  /\ outcome \in TerminalOutcomes => outcome' \in {outcome, "none"}

\* after the terminal outcome only the batch loop moves on: no stage runs
NoStageAfterOutcome ==
  pc = "done"
     => /\ pc' = "idle"
        /\ outcome' = "none"
        /\ <<s3objects, syncCalls, tables, session>>' =
             <<s3objects, syncCalls, tables, session>>

\* C23: every run passes its stages in the order text extraction,
\* classification, extraction, gate check, upload, persistence, and ends in
\* exactly one terminal outcome (Rejected, Persisted or Failed); no stage is
\* executed after the terminal outcome
C23_StagesInOrderToOneOutcome ==
  /\ [][StagesInOrder /\ OneTerminalOutcome /\ NoStageAfterOutcome]_vars
  /\ (pc = "text") ~> (pc = "done" /\ outcome \in TerminalOutcomes)

\* a run that went through every stage and was persisted
C23_Witness ==
  /\ pc = "done"
  /\ outcome = "Persisted"
  /\ path = "normal"
  /\ "upload" \in {effects[i] : i \in 1..Len(effects)}
  /\ StoreCalled

(***************************************************************************)
(* extract_text_from_file on every kind of file name                       *)
(***************************************************************************)
NameUpperPdf == <<"A",".","P","D","F">>

NameDocx == <<"b",".","d","o","c","x">>

NamePng == <<"p",".","p","n","g">>

NameJpg == <<"q",".","j","p","g">>

NameJpeg == <<"r",".","J","P","E","G">>

NameTwoDots == <<"s",".","t","x","t",".","p","d","f">>

NameUnknown == <<"u",".","b","i","n">>

NameNoExtension == <<"r","e","a","d","m","e">>

NameTrailingDot == <<"t",".">>

FileNames ==
  {NamePdf, NameUpperPdf, NameDocx, NameTxt, NamePng, NameJpg, NameJpeg,
   NameTwoDots, NameUnknown, NameNoExtension, NameTrailingDot, <<>>}

\* the text the bytes carry: readable, short, blank, empty
FileTexts == {TextDeed, TextShort, <<" ", "\n">>, <<>>}

FileDocuments ==
  {[name |-> f, text |-> t, lib |-> l] :
     f \in FileNames, t \in FileTexts, l \in {"ok", "raise"}}

InitText ==
  /\ arn = FALSE
  /\ n = 0
  /\ pc = "text"
  /\ doc \in FileDocuments
  /\ RunInit
  /\ s3objects = {}
  /\ syncCalls = 0
  /\ tables = EmptyTables
  /\ nextUuid = 1
  /\ session = InitSession
  /\ processing_results = 0

\* one call of extract_text_from_file(file_content, filename)
CallExtractText ==
  /\ pc = "text"
  /\ extracted_text' = ExtractTextFromFile(doc)
  /\ raised' = IF doc.lib = "raise"
                  /\ FileExtension(doc.name) \in {<<"p","d","f">>, <<"d","o","c","x">>}
               THEN {"text"} ELSE {}
  /\ pc' = "returned"
  /\ UNCHANGED <<arn, n, doc, classification, extracted_data, path, conf,
                 upload, s3_path, s3objects, syncCalls, tables, nextUuid,
                 record_id, outcome, session, processing_results, written,
                 atStart, effects, response, validated>>

NextText == CallExtractText

SpecText == InitText /\ [][NextText]_vars

IsString(v) == DOMAIN v = 1..Len(v) /\ \A i \in 1..Len(v) : v[i] \in STRING

StartsWith(s, prefix) ==
  Len(s) >= Len(prefix) /\ SubSeq(s, 1, Len(prefix)) = prefix

\* a diagnostic placeholder: text in square brackets, then possibly a message
Bracketed(s) == s # <<>> /\ s[1] = "[" /\ \E i \in 2..Len(s) : s[i] = "]"

IsImage(filename) ==
  FileExtension(filename) \in {<<"p","n","g">>, <<"j","p","g">>, <<"j","p","e","g">>}

IsFormatted(filename) ==
  FileExtension(filename) \in {<<"p","d","f">>, <<"d","o","c","x">>}

\* C24: extract_text_from_file returns a string for every content and file
\* name (pdf, docx, txt, image, unknown or missing extension, failing format
\* library); the string is a bracketed diagnostic when the format library
\* raises or a PDF carries no text, and for an image it is the fixed
\* placeholder naming the file
C24_ExtractTextAlwaysReturnsAString ==
  pc = "returned"
    => /\ IsString(extracted_text)
       /\ "text" \in raised
            => /\ Bracketed(extracted_text)
               /\ \/ StartsWith(extracted_text, ErrReadingPdf)
                  \/ StartsWith(extracted_text, ErrReadingDocx)
       /\ (FileExtension(doc.name) = <<"p","d","f">> /\ Strip(doc.text) = <<>>)
            => Bracketed(extracted_text)
       /\ IsImage(doc.name)
            => extracted_text = ImagePrefix \o doc.name \o ImageSuffix
       /\ (~IsImage(doc.name) /\ ~IsFormatted(doc.name))
            => extracted_text = doc.text

\* an image whose name has an upper-case extension, with unreadable bytes
C24_Witness ==
  /\ pc = "returned"
  /\ doc.name = NameJpeg
  /\ doc.lib = "raise"
  /\ doc.text = <<>>
  /\ extracted_text = ImagePrefix \o NameJpeg \o ImageSuffix

(***************************************************************************)
(* MCP classification: mcp_client.py against mcp_bedrock_server.py         *)
(***************************************************************************)
ErrInvalidResponse == <<"E","r","r","o","r",":"," ","I","n","v","a","l","i","d"," ","r","e","s","p","o","n","s","e"," ","f","o","r","m","a","t">>

ErrPrefix == <<"E","r","r","o","r",":"," ">>

NoClassificationReturned == <<"N","o"," ","c","l","a","s","s","i","f","i","c","a","t","i","o","n"," ","r","e","t","u","r","n","e","d">>

NameErrorMessage == <<"n","a","m","e"," ","'","f","i","l","e","_","c","o","n","t","e","n","t","'"," ","i","s"," ","n","o","t"," ","d","e","f","i","n","e","d">>

BrokenPipe == <<"B","r","o","k","e","n"," ","p","i","p","e">>

\* test_mcp.py lines 15-21, shortened: the contents and names of the test
McpContents ==
  {<<"s","e","t","t","l","e","m","e","n","t"," ","s","t","a","t","e","m","e","n","t">>,
   <<"I","n","c","o","m","e"," ","v","e","r","i","f","i","c","a","t","i","o","n"," ","l","e","t","t","e","r">>,
   <<"P","u","r","c","h","a","s","e"," ","a","g","r","e","e","m","e","n","t">>,
   <<"R","a","n","d","o","m"," ","t","e","x","t">>,
   <<" ", "\n">>,
   <<>>}

McpFileNames == {NamePdf, NameTxt, <<"d","o","c","u","m","e","n","t">>}

McpDocuments ==
  {[name |-> f, text |-> t, lib |-> "ok"] : f \in McpFileNames, t \in McpContents}

\* what the tool handler does with a call: a text it returns, or an exception
ToolReturns(text) == [kind |-> "result_text", text |-> text]

ToolRaises(message) == [kind |-> "tool_raise", text |-> message]

\* call_tool, lines 55-141: blank content is answered at once; for any other
\* content the prompt of lines 65-86 reads file_content, a name that is
\* defined nowhere in the module, before the try block of line 88 is entered
CallTool(content) ==
  IF Strip(content) = <<>> THEN ToolReturns(InvalidDocument)
  ELSE ToolRaises(NameErrorMessage)

\* What the server framework sends for a handler that raised is outside the
\* repository: a result carrying the message, or a JSON-RPC error.
Framework == {"as_result", "as_error"}

Served(answer, framework) ==
  IF answer.kind # "tool_raise" THEN answer
  ELSE IF framework = "as_result" THEN ToolReturns(answer.text)
  ELSE [kind |-> "rpc_error", text |-> answer.text]

\* what the client gets for its request: the served answer, a result with an
\* empty content list or an entry without text, no line at all (readline
\* returns b""), an exception of the write or of json.loads, or
\* start_server itself raising
Transports == {"served", "empty_content", "no_text", "eof", "send_raises", "start_raises"}

Received(content, transport, framework) ==
  CASE transport = "served"        -> Served(CallTool(content), framework)
    [] transport = "empty_content" -> [kind |-> "result_empty", text |-> <<>>]
    [] transport = "no_text"       -> [kind |-> "result_notext", text |-> <<>>]
    [] transport = "eof"           -> [kind |-> "none", text |-> <<>>]
    [] transport = "send_raises"   -> [kind |-> "raise", text |-> BrokenPipe]
    [] transport = "start_raises"  -> [kind |-> "start_raise", text |-> BrokenPipe]

\* MCPClient.classify_document, lines 78-86
ClassifyDocument(received) ==
  CASE received.kind = "raise"         -> ErrPrefix \o received.text
    [] received.kind = "result_text"   -> received.text
    [] received.kind = "result_notext" -> NoClassificationReturned
    [] OTHER                           -> ErrInvalidResponse

\* classify_document_sync, lines 99-114: only what escapes classify_document
\* (start_server raising at line 63) reaches the except of line 113
ClassifyDocumentSync(received) ==
  IF received.kind = "start_raise" THEN InvalidDocument
  ELSE ClassifyDocument(received)

InitMcp ==
  /\ arn = FALSE
  /\ n = 0
  /\ pc = "mcp_idle"
  /\ doc \in McpDocuments
  /\ RunInit
  /\ s3objects = {}
  /\ syncCalls = 0
  /\ tables = EmptyTables
  /\ nextUuid = 1
  /\ session = InitSession
  /\ processing_results = 0

\* test_mcp.py line 29: result = classify_document_sync(content, filename)
McpClassify(transport, framework) ==
  /\ pc = "mcp_idle"
  /\ response' = Received(doc.text, transport, framework)
  /\ classification' = ClassifyDocumentSync(response')
  /\ pc' = "mcp_returned"
  /\ UNCHANGED <<arn, n, doc, extracted_text, extracted_data, path, conf,
                 upload, s3_path, s3objects, syncCalls, tables, nextUuid,
                 record_id, outcome, session, processing_results, written,
                 atStart, effects, raised, validated>>

NextMcp == \E transport \in Transports, framework \in Framework : McpClassify(transport, framework)

SpecMcp == InitMcp /\ [][NextMcp]_vars

\* test_mcp.py line 33
McpCategories == Categories \cup {InvalidDocument}

\* C25 (as claimed): for every content and file name, and any server response
\* or failure, classify_document_sync returns Settlement Documents, Income
\* Verifications, Purchase Agreements or INVALID_DOCUMENT
C25_SyncResultIsACategory ==
  pc = "mcp_returned" => classification \in McpCategories

(***************************************************************************)
(* Category returned by classify_and_extract                               *)
(***************************************************************************)
\* C26 (as claimed): the category classify_and_extract returns is the one the
\* classification validator chose, whatever text the oracle returns for the
\* extraction call (a JSON object, JSON that is not an object, or text that
\* cannot be parsed)
C26_CategoryIsTheValidatorsChoice ==
  [][pc = "extract" => classification' = classification]_vars

(***************************************************************************)
(* The main block of app.py across script reruns                           *)
(*                                                                         *)
(* Streamlit runs the script from the top on every rerun.  session holds   *)
(* the keys of st.session_state that the main block uses and the value of  *)
(* the file_uploader widget, which the session keeps between reruns; files *)
(* are compared by identity.  effects logs every classify_document and     *)
(* upload_to_s3 call with its file; processing_results is the loop-local   *)
(* counter successful_uploads; n counts the changes of the widget.         *)
(***************************************************************************)
MaxFiles == 2

MaxChanges == 3

Files == 1..MaxFiles

\* the list the widget returns for a set of files
ListOf(fs) ==
  CHOOSE s \in [1..Cardinality(fs) -> fs] :
    \A i, j \in 1..Cardinality(fs) : i < j => s[i] < s[j]

\* app.py lines 27-40: no 'processing_complete' key, nothing uploaded
InitRerunSession ==
  [processing_complete |-> "absent",
   current_files       |-> <<>>,
   uploaded_files      |-> <<>>,
   successful_uploads  |-> 0]

InitRerun ==
  /\ arn = FALSE
  /\ n = 0
  /\ pc = "app_run"
  /\ doc = NoDoc
  /\ RunInit
  /\ s3objects = {}
  /\ syncCalls = 0
  /\ tables = EmptyTables
  /\ nextUuid = 1
  /\ session = InitRerunSession
  /\ processing_results = 0

\* the user adds or removes files in the uploader while the script sleeps
\* (or after it stopped on an exception); the widget change reruns the script
ChangeFiles(fs) ==
  /\ pc \in {"app_sleep", "app_halted"}
  /\ n < MaxChanges
  /\ ListOf(fs) # session.uploaded_files
  /\ session' = [session EXCEPT !.uploaded_files = ListOf(fs)]
  /\ n' = n + 1
  /\ pc' = "app_run"
  /\ UNCHANGED <<arn, doc, extracted_text, classification, extracted_data,
                 path, conf, upload, s3_path, s3objects, syncCalls, tables,
                 nextUuid, record_id, outcome, processing_results, written,
                 atStart, effects, raised, response, validated>>

\* lines 356-359: time.sleep(1); st.rerun()
AutoRerun ==
  /\ pc = "app_sleep"
  /\ pc' = "app_run"
  /\ UNCHANGED <<arn, n, doc, extracted_text, classification, extracted_data,
                 path, conf, upload, s3_path, s3objects, syncCalls, tables,
                 nextUuid, record_id, outcome, session, processing_results,
                 written, atStart, effects, raised, response, validated>>

\* lines 276-343: the if / elif of the main block, up to the batch loop
MainBlock ==
  /\ pc = "app_run"
  /\ IF session.uploaded_files # <<>> /\ session.processing_complete = "absent"
     THEN /\ session' = [session EXCEPT !.processing_complete = "False",
                                        !.current_files = session.uploaded_files]
          /\ processing_results' = 0
          /\ pc' = "app_batch"
     ELSE IF session.processing_complete = "True"
             /\ session.current_files # <<>>
             /\ session.uploaded_files # session.current_files
     THEN /\ session' = [session EXCEPT !.processing_complete = "False"]
          /\ pc' = "app_run"
          /\ UNCHANGED processing_results
     ELSE /\ pc' = "app_sleep"
          /\ UNCHANGED <<session, processing_results>>
  /\ UNCHANGED <<arn, n, doc, extracted_text, classification, extracted_data,
                 path, conf, upload, s3_path, s3objects, syncCalls, tables,
                 nextUuid, record_id, outcome, written, atStart, effects,
                 raised, response, validated>>

Logged(op, file) == [op |-> op, file |-> file]

\* lines 284-318: one pass of the loop; after the last file the batch is
\* marked complete.  An exception of upload_to_s3 ends the script run.
ProcessFile(uploaded) ==
  /\ pc = "app_batch"
  /\ LET file == session.current_files[processing_results + 1]
         last == processing_results + 1 = Len(session.current_files)
     IN IF uploaded
        THEN /\ effects' = effects \o <<Logged("classify", file), Logged("upload", file)>>
             /\ processing_results' = processing_results + 1
             /\ session' = [session EXCEPT
                              !.successful_uploads = @ + 1,
                              !.processing_complete = IF last THEN "True" ELSE @]
             /\ pc' = IF last THEN "app_sleep" ELSE "app_batch"
        ELSE /\ effects' = Append(effects, Logged("classify", file))
             /\ pc' = "app_halted"
             /\ UNCHANGED <<session, processing_results>>
  /\ UNCHANGED <<arn, n, doc, extracted_text, classification, extracted_data,
                 path, conf, upload, s3_path, s3objects, syncCalls, tables,
                 nextUuid, record_id, outcome, written, atStart, raised,
                 response, validated>>

NextRerun ==
  \/ \E fs \in SUBSET Files : ChangeFiles(fs)
  \/ AutoRerun
  \/ MainBlock
  \/ \E uploaded \in BOOLEAN : ProcessFile(uploaded)

ScriptStep == AutoRerun \/ MainBlock \/ \E uploaded \in BOOLEAN : ProcessFile(uploaded)

\* the script keeps running: each run reaches its end and the timer reruns it
SpecRerun == InitRerun /\ [][NextRerun]_vars /\ WF_vars(ScriptStep)

\* a batch has completed and the uploader now holds other files
FilesChangedAfterBatch ==
  /\ session.processing_complete = "True"
  /\ session.uploaded_files # <<>>
  /\ session.uploaded_files # session.current_files

\* a completed batch covers the files of the uploader
UploadedFilesProcessed ==
  /\ session.processing_complete = "True"
  /\ session.current_files = session.uploaded_files

\* C27 (as claimed): when the uploaded files change after a batch has
\* completed, processing is reset and the new files are eventually
\* classified and uploaded; and a rerun that finds the files of the completed
\* batch unchanged classifies and uploads nothing
C27_NewFilesAreEventuallyProcessed ==
  /\ FilesChangedAfterBatch ~> UploadedFilesProcessed
  /\ [][(session.processing_complete = "True"
          /\ session.uploaded_files = session.current_files)
         => effects' = effects]_vars

(***************************************************************************)
(* Session counters of Home.py, with the Clear Session Data button         *)
(***************************************************************************)
\* variant: the category counts survive the clear
ClearedSessionKeepsCategories(ss) ==
  [ss EXCEPT !.documents_processed = 0,
             !.successful_uploads = 0,
             !.dynamodb_records = 0,
             !.processing_times = 0]

\* Home.py lines 532-545: every counter key is set back to its initial value
\* (total_cost, reset with them, is not modelled)
ClearedSession(ss) ==
  [ss EXCEPT !.documents_processed = 0,
             !.successful_uploads = 0,
             !.dynamodb_records = 0,
             !.processing_times = 0,
             !.category_counts = [c \in Categories |-> 0]]

\* lines 531-548: the button is handled by a script run of its own, between
\* two documents
ClearSession ==
  /\ pc = "idle"
  /\ session # ClearedSession(session)
  /\ session' = ClearedSession(session)
  /\ UNCHANGED <<arn, n, pc, doc, extracted_text, classification,
                 extracted_data, path, conf, upload, s3_path, s3objects,
                 syncCalls, tables, nextUuid, record_id, outcome,
                 processing_results, written, atStart, effects, raised,
                 response, validated>>

NextSession ==
  \/ Next
  \/ ClearSession

SpecSession == Init /\ [][NextSession]_vars

CategoryTotal(ss) ==
  ss.category_counts[SettlementDocuments]
    + ss.category_counts[IncomeVerifications]
    + ss.category_counts[PurchaseAgreements]

CountersConsistent ==
  /\ session.dynamodb_records <= session.successful_uploads
  /\ session.successful_uploads <= session.documents_processed
  /\ session.processing_times = session.documents_processed
  /\ CategoryTotal(session) = session.successful_uploads

\* of the counters, a rejected document moves documents_processed alone
\* (and with it the list of processing times, which has that length)
RejectedCountsOnce ==
  (outcome = "none" /\ outcome' = "Rejected")
    => session' = [session EXCEPT !.documents_processed = @ + 1,
                                  !.processing_times = @ + 1]

RecordForStore ==
  IF pc = "store" THEN RecordToStore(extracted_data, s3_path, conf)
  ELSE extracted_data

\* C29: every record that reaches table persistence has missing_fields empty
\* and confidence_score 1.0; the gate passes a document only when no required
\* field is missing, so a score below the threshold never rejects alone
C29_StoredRecordHasFullConfidence ==
  /\ (pc = "store" \/ StoreCalled)
       => /\ conf = [score |-> FullScore, missing |-> <<>>]
          /\ Get(RecordForStore, "missing_fields") = L(<<>>)
          /\ Get(RecordForStore, "confidence_score") = [t |-> "tenths", v |-> <<FullScore>>]
  /\ (pc = "done" /\ outcome = "Rejected") => conf.missing # <<>>

\* a stored record whose required fields were all extracted
C29_Witness ==
  /\ StoreCalled
  /\ outcome = "Persisted"
  /\ written # <<>>
  /\ Get(extracted_data, "confidence_score") = [t |-> "tenths", v |-> <<FullScore>>]
  /\ \A i \in 1..Len(required_fields[classification]) :
        ~FieldMissing(extracted_data, required_fields[classification][i])

====
